---- MODULE Spec2Model ----
(***************************************************************************)
(* A model of the rjvm interpreter core: the call frame (operand stack,    *)
(* locals, pc), the dispatch loop of CallFrame::execute, the exception     *)
(* handler search, method invocation and the errors an instruction raises. *)
(*                                                                         *)
(* The bytecode of a method is not fixed: at every pc the model executes   *)
(* any instruction of the model's menu, so a run of the model is a         *)
(* run of some class file whose code is at most CodeLen bytes long.        *)
(***************************************************************************)
EXTENDS Integers, Sequences, FiniteSets, TLC

VARIABLES
    frames,     \* the call stack: a sequence of call frames, the last one executing
    pending,    \* the MethodCallResult in flight from a frame that ended to its caller
    heap,       \* the allocated objects, by handle
    classes,    \* the installed classes, in the order of their class ids
    class_path, \* ClassPath.entries: the class path entries, in the order added
    ev          \* the dispatch step taken last (what CallFrame::execute just did)

vars == <<frames, pending, heap, classes, class_path, ev>>

(***************************************************************************)
(* Bounds of the model.                                                    *)
(***************************************************************************)
MaxStack == 2       \* max_stack of the methods of the model
CodeLen  == 6       \* length in bytes of the code of every method
MaxDepth == 3       \* frames on the call stack when exceptions unwind it
CallDepth == 2      \* frames on the call stack when methods are dispatched
MaxLocals == 3      \* max_locals of the methods that load and store locals

(***************************************************************************)
(* Values (value.rs).                                                      *)
(***************************************************************************)
Uninitialized == [tag |-> "Uninitialized", v |-> 0]
IntValue(n)   == [tag |-> "Int", v |-> n]
LongValue(n)  == [tag |-> "Long", v |-> n]
FloatValue(code)  == [tag |-> "Float", v |-> code]
DoubleValue(code) == [tag |-> "Double", v |-> code]
ObjectValue(h) == [tag |-> "Object", v |-> h]
Null          == [tag |-> "Null", v |-> 0]

\* Option<T>
None    == [some |-> FALSE, v |-> 0]
Some(x) == [some |-> TRUE, v |-> x]

\* None where Some holds a value, a class name
NoValue == [some |-> FALSE, v |-> Uninitialized]
NoClass == [some |-> FALSE, v |-> ""]

(***************************************************************************)
(* The classes of the model: B extends A, A implements I, E, Main and S    *)
(* are unrelated to both.  "Missing" is named by class files and is on no  *)
(* class path entry.                                                       *)
(***************************************************************************)
JavaLangObject == "java/lang/Object"

ClassNames == {JavaLangObject, "A", "B", "E", "I", "Main", "S"}

superclass(c) ==
    CASE c = JavaLangObject -> NoClass
      [] c = "B"            -> Some("A")
      [] OTHER              -> Some(JavaLangObject)

interfaces(c) == IF c = "A" THEN {"I"} ELSE {}

\* Class::is_subclass_of: the class itself, its superclass chain and the
\* interfaces met on the way.
RECURSIVE is_subclass_of(_, _)
is_subclass_of(c, base) ==
    \/ c = base
    \/ base \in interfaces(c)
    \/ /\ superclass(c).some
       /\ is_subclass_of(superclass(c).v, base)

\* Vm::get_or_resolve_class: the class, or the class loading error.
get_or_resolve_class(class_name) ==
    IF class_name \in ClassNames
    THEN [ok |-> TRUE, class |-> class_name]
    ELSE [ok |-> FALSE, err |-> "ClassNotFoundException"]

\* Class: a linked class, with its superclass and its interfaces by name.  The
\* class manager keeps the installed classes in the order of their class ids.
Class(name, super, interface_names) ==
    [name |-> name, superclass |-> super, interfaces |-> interface_names]

\* The interpreter runs with the classes of the model installed, each after
\* its superclass and its interfaces; no class is loaded while it runs.
Loaded ==
    /\ classes = << Class(JavaLangObject, NoClass, <<>>),
                    Class("I", Some(JavaLangObject), <<>>),
                    Class("A", Some(JavaLangObject), <<"I">>),
                    Class("B", Some("A"), <<>>),
                    Class("E", Some(JavaLangObject), <<>>),
                    Class("Main", Some(JavaLangObject), <<>>),
                    Class("S", Some(JavaLangObject), <<>>) >>
    /\ class_path = <<>>

\* FieldType: Base(BaseType), Object(class name) or Array(element type); only
\* arrays of a base type or of a class are built.  Void stands for the "V" of
\* a method descriptor.
Base(base_type)       == [k |-> "Base", t |-> base_type, of |-> ""]
ObjectType(class)     == [k |-> "Object", t |-> class, of |-> ""]
ArrayType(field_type) == [k |-> "Array", t |-> field_type.t, of |-> field_type.k]
Void                  == [k |-> "Void", t |-> "", of |-> ""]
\* None where Some holds a FieldType
NoType                == [some |-> FALSE, v |-> Void]

(***************************************************************************)
(* The objects of the model.  Handles 1..3 are instances, handle 4 is an   *)
(* int array.                                                              *)
(***************************************************************************)
ArrayLength == 2

\* AbstractObject: an instance of a class with its fields, or an array with
\* its element type and its elements.
Instance(class, fields) ==
    [kind |-> "Object", class |-> class,
     elements_type |-> [k |-> "", t |-> "", of |-> ""], fields |-> fields]
Array(elements_type, elements) ==
    [kind |-> "Array", class |-> "", elements_type |-> elements_type,
     fields |-> elements]

InitialHeap ==
    [h \in 1..4 |->
        CASE h = 1 -> Instance("A", <<IntValue(0)>>)
          [] h = 2 -> Instance("B", <<IntValue(0)>>)
          [] h = 3 -> Instance("E", <<>>)
          [] h = 4 -> Array(Base("Int"), [i \in 1..ArrayLength |-> IntValue(0)])]

(***************************************************************************)
(* Methods.  A method is named by its class, name and type descriptor; a   *)
(* type descriptor is its parameter types and its return type ("V" void).  *)
(* An exception table entry is [start_pc, end_pc) -> handler_pc, with the  *)
(* caught class name or None.                                              *)
(***************************************************************************)
Entry(start_pc, end_pc, handler_pc, catch_class) ==
    [start_pc |-> start_pc, end_pc |-> end_pc,
     handler_pc |-> handler_pc, catch_class |-> catch_class]

Descriptor(params, ret) == [params |-> params, ret |-> ret]

Method(class, name, desc, is_static, is_native, table) ==
    [class |-> class, name |-> name, type_descriptor |-> desc,
     is_static |-> is_static, is_native |-> is_native,
     max_stack |-> MaxStack,
     max_locals |-> Len(desc.params) + (IF is_static THEN 0 ELSE 1),
     exception_table |-> table]

\* Main.outer: a B is caught by the first entry, an A by the second, anything
\* thrown from pc 1 on by the third.
OuterTable ==
    << Entry(0, 2, 3, Some("B")),
       Entry(0, 3, 2, Some("A")),
       Entry(1, 4, 1, NoClass) >>

\* Main.inner catches an A thrown by its first instruction only.
InnerTable == << Entry(0, 1, 3, Some("A")) >>

\* Main.broken names a catch class that no class path entry has.
BrokenTable ==
    << Entry(0, 2, 3, Some("Missing")),
       Entry(0, 4, 2, NoClass) >>

\* Main.late catches a Late, a class that is installed and initialised when
\* the handler search first names it, and then anything.
LateTable ==
    << Entry(0, CodeLen, 4, Some("Late")),
       Entry(0, CodeLen, 4, NoClass) >>

\* Main.guarded: the whole code lies in a catch-any range.
GuardedTable == << Entry(0, CodeLen, 0, NoClass) >>

\* The native methods of Main that take nothing and return a value, by name,
\* with the return type of their descriptors.
NativeReturns ==
    [ retInt     |-> Base("Int"),
      retByte    |-> Base("Byte"),
      retChar    |-> Base("Char"),
      retShort   |-> Base("Short"),
      retBoolean |-> Base("Boolean"),
      retLong    |-> Base("Long"),
      retFloat   |-> Base("Float"),
      retDouble  |-> Base("Double"),
      retObject  |-> ObjectType(JavaLangObject),
      retA       |-> ObjectType("A"),
      retB       |-> ObjectType("B"),
      retI       |-> ObjectType("I"),
      retE       |-> ObjectType("E"),
      retInts    |-> ArrayType(Base("Int")),
      retLongs   |-> ArrayType(Base("Long")),
      retAs      |-> ArrayType(ObjectType("A")),
      retBs      |-> ArrayType(ObjectType("B")),
      retObjects |-> ArrayType(ObjectType(JavaLangObject)) ]

\* The methods each class declares, by name (no class of the model declares
\* two methods of one name).
methods(class, name) ==
    LET ObjectToVoid == Descriptor(<<ObjectType(JavaLangObject)>>, Void)
        ToInt        == Descriptor(<<>>, Base("Int"))
    IN
    CASE class = "Main" /\ name = "outer" ->
            Some(Method(class, name, ObjectToVoid, TRUE, FALSE, OuterTable))
      [] class = "Main" /\ name = "inner" ->
            Some(Method(class, name, ObjectToVoid, TRUE, FALSE, InnerTable))
      [] class = "Main" /\ name = "broken" ->
            Some(Method(class, name, ObjectToVoid, TRUE, FALSE, BrokenTable))
      [] class = "Main" /\ name = "guarded" ->
            Some(Method(class, name, ObjectToVoid, TRUE, FALSE, GuardedTable))
      [] class = "Main" /\ name = "compute" ->
            Some(Method(class, name, ToInt, TRUE, FALSE, GuardedTable))
      [] class = "Main" /\ name = "access" ->
            Some([ Method(class, name,
                          Descriptor(<<ObjectType("A"), ArrayType(Base("Int"))>>, Void),
                          TRUE, FALSE, GuardedTable)
                     EXCEPT !.max_stack = MaxStack + 1 ])
      [] class = "Main" /\ name = "run" ->
            Some(Method(class, name, Descriptor(<<ObjectType("A")>>, Void),
                        TRUE, FALSE, <<>>))
      [] class = "Main" /\ name = "s" ->
            Some(Method(class, name, Descriptor(<<Base("Int")>>, Base("Int")),
                        TRUE, FALSE, <<>>))
      [] class = "Main" /\ name = "nat" ->
            Some(Method(class, name, ToInt, TRUE, TRUE, <<>>))
      [] class \in {"I", "A", "B"} /\ name = "m" ->
            Some(Method(class, name, ToInt, FALSE, FALSE, <<>>))
      [] class = "A" /\ name = "n" ->
            Some(Method(class, name, Descriptor(<<Base("Int")>>, Void),
                        FALSE, FALSE, <<>>))
      [] class = "Main" /\ name = "store" ->
            Some([ Method(class, name, Descriptor(<<>>, Void), TRUE, FALSE, <<>>)
                     EXCEPT !.max_locals = MaxLocals ])
      [] class = "Main" /\ name = "storeJI" ->
            Some([ Method(class, name,
                          Descriptor(<<Base("Long"), Base("Int")>>, Void),
                          TRUE, FALSE, <<>>)
                     EXCEPT !.max_locals = MaxLocals ])
      [] class = "Main" /\ name = "storeIJ" ->
            Some([ Method(class, name,
                          Descriptor(<<Base("Int"), Base("Long")>>, Void),
                          TRUE, FALSE, <<>>)
                     EXCEPT !.max_locals = MaxLocals ])
      [] class = "Main" /\ name = "math" ->
            Some(Method(class, name, Descriptor(<<>>, Void), TRUE, FALSE, <<>>))
      [] class = "Main" /\ name = "ff" ->
            Some(Method(class, name,
                        Descriptor(<<Base("Float"), Base("Float")>>, Void),
                        TRUE, FALSE, <<>>))
      [] class = "Main" /\ name = "dd" ->
            Some([ Method(class, name,
                          Descriptor(<<Base("Double"), Base("Double")>>, Void),
                          TRUE, FALSE, <<>>)
                     EXCEPT !.max_locals = 2 * @ ])
      [] class = "Main" /\ name = "types" ->
            Some(Method(class, name, Descriptor(<<>>, Void), TRUE, FALSE, <<>>))
      [] class = "Main" /\ name \in DOMAIN NativeReturns ->
            Some(Method(class, name, Descriptor(<<>>, NativeReturns[name]),
                        TRUE, TRUE, <<>>))
      [] class = "Main" /\ name = "shuffle" ->
            Some([ Method(class, name, Descriptor(<<>>, Void), TRUE, FALSE, <<>>)
                     EXCEPT !.max_stack = MaxStack + 4 ])
      [] class = "Main" /\ name = "gc" ->
            Some([ Method(class, name,
                          Descriptor(<<ArrayType(ObjectType("A"))>>, Void),
                          TRUE, FALSE, <<>>)
                     EXCEPT !.max_locals = 2 ])
      [] class \in {"Main", "S"} /\ name = "st" ->
            Some(Method(class, name, Descriptor(<<>>, Void), TRUE, FALSE, <<>>))
      [] class = "A" /\ name = "r" ->
            Some(Method(class, name, Descriptor(<<>>, ObjectType("A")),
                        FALSE, FALSE, <<>>))
      [] class = "Main" /\ name = "late" ->
            Some(Method(class, name,
                        Descriptor(<<ArrayType(ObjectType("A"))>>, Void),
                        TRUE, FALSE, LateTable))
      [] class = "Late" /\ name = "<clinit>" ->
            Some(Method(class, name, Descriptor(<<>>, Void), TRUE, FALSE, <<>>))
      [] OTHER -> None

\* The method of the name, if its type descriptor is the one looked for
with_descriptor(method, desc) ==
    IF method.some /\ method.v.type_descriptor = desc THEN method ELSE None

\* Class::find_method
find_method(class, name, desc) == with_descriptor(methods(class, name), desc)

\* ClassAndMethod: the class a method was found on, and the method.
ClassAndMethod(class, method) ==
    [class |-> class, name |-> method.name, type_descriptor |-> method.type_descriptor]

method_of(class_and_method) ==
    find_method(class_and_method.class, class_and_method.name,
                class_and_method.type_descriptor).v

is_static(class_and_method)     == method_of(class_and_method).is_static
num_arguments(class_and_method) == Len(class_and_method.type_descriptor.params)
return_type(class_and_method)   ==
    IF class_and_method.type_descriptor.ret.k = "Void"
    THEN NoType ELSE Some(class_and_method.type_descriptor.ret)
is_void(class_and_method)       == ~return_type(class_and_method).some

(***************************************************************************)
(* Results.  MethodCallFailed is InternalError(VmError) or                 *)
(* ExceptionThrown(JavaException); an instruction completes with           *)
(* ContinueMethodExecution or ReturnFromMethod(Option<Value>).  Each       *)
(* result carries the frame as the instruction left it.                    *)
(***************************************************************************)
ContinueMethodExecution(frame) ==
    [kind |-> "continue", frame |-> frame, val |-> NoValue, err |-> "", obj |-> 0]
ReturnFromMethod(frame, val) ==
    [kind |-> "return", frame |-> frame, val |-> val, err |-> "", obj |-> 0]
InternalError(frame, err) ==
    [kind |-> "internal", frame |-> frame, val |-> NoValue, err |-> err, obj |-> 0]
ExceptionThrown(frame, obj) ==
    [kind |-> "exception", frame |-> frame, val |-> NoValue, err |-> "", obj |-> obj]

\* A panic of the interpreter itself (an index out of the bounds of a Vec, an
\* arithmetic overflow in a build that checks for it): no MethodCallFailed, the
\* process unwinds.
Panicked(frame) ==
    [kind |-> "panic", frame |-> frame, val |-> NoValue, err |-> "", obj |-> 0]

\* Result<T, VmError>
Ok(x)    == [ok |-> TRUE, v |-> x, err |-> ""]
Err(err) == [ok |-> FALSE, v |-> 0, err |-> err]

\* impl From<VmError> for MethodCallFailed: a VmError raised by `?` inside an
\* instruction is an InternalError, whichever VmError it is.
FromVmError(frame, err) == InternalError(frame, err)

\* What a frame hands to its caller (MethodCallResult): Ok(Option<Value>),
\* Err(InternalError) or Err(ExceptionThrown).
Returned(val)        == [kind |-> "return", val |-> val, err |-> "", obj |-> 0]
FailedInternal(err)  == [kind |-> "internal", val |-> NoValue, err |-> err, obj |-> 0]
FailedException(obj) == [kind |-> "exception", val |-> NoValue, err |-> "", obj |-> obj]

(***************************************************************************)
(* Call frames.                                                            *)
(***************************************************************************)
CallFrame(class_and_method, locals) ==
    [class_and_method |-> class_and_method,
     pc |-> 0,
     executed_instruction_pc |-> 0,
     locals |-> locals,
     stack |-> <<>>,
     method_return_type |-> NoType,   \* of the method being invoked, if any
     invoking |-> FALSE,            \* inside vm.invoke of invoke_method
     thrown |-> None]               \* the exception `execute` holds while
                                    \* the search for its handler waits

\* ValueStack::push: a full stack refuses the value.
StackFull(frame) == Len(frame.stack) >= method_of(frame.class_and_method).max_stack

\* A push that grew the stack past its capacity
push_Unbounded(frame, value) ==
    ContinueMethodExecution([frame EXCEPT !.stack = Append(@, value)])

\* CallFrame::push / CallFrame::pop, on the frame an instruction works on
push(frame, value) ==
    IF StackFull(frame)
    THEN InternalError(frame, "ValidationException")
    ELSE ContinueMethodExecution([frame EXCEPT !.stack = Append(@, value)])

TopValue(frame)  == frame.stack[Len(frame.stack)]
Popped(frame)    == [frame EXCEPT !.stack = SubSeq(@, 1, Len(@) - 1)]

(***************************************************************************)
(* CallFrame::find_exception_handler                                       *)
(***************************************************************************)
\* ExceptionTable::lookup: the entries whose range holds the pc, in table order
lookup(exception_table, pc) ==
    SelectSeq(exception_table, LAMBDA e : e.start_pc <= pc /\ pc < e.end_pc)

Found(handler_pc) == [kind |-> "handler", pc |-> handler_pc, err |-> ""]
NotFound          == [kind |-> "none", pc |-> 0, err |-> ""]
SearchFailed(err) == [kind |-> "failed", pc |-> 0, err |-> err]

RECURSIVE first_matching(_, _, _)
first_matching(catch_handlers, exception, objects) ==
    IF catch_handlers = <<>> THEN NotFound
    ELSE LET catch_handler == Head(catch_handlers) IN
         IF ~catch_handler.catch_class.some
         THEN Found(catch_handler.handler_pc)
         ELSE LET catch_class == get_or_resolve_class(catch_handler.catch_class.v) IN
              IF ~catch_class.ok THEN SearchFailed(catch_class.err)
              ELSE IF is_subclass_of(objects[exception].class, catch_class.class)
                   THEN Found(catch_handler.handler_pc)
                   ELSE first_matching(Tail(catch_handlers), exception, objects)

\* A variant of the handler search that looks the pc up after it was moved
\* past the instruction.
HandlerSearchPc_Advanced(frame) == frame.pc

\* The pc the exception table is searched for: that of the instruction executed.
HandlerSearchPc(frame) == frame.executed_instruction_pc

find_exception_handler(frame, exception, objects) ==
    first_matching(
        lookup(method_of(frame.class_and_method).exception_table,
               HandlerSearchPc(frame)),
        exception, objects)

\* The operand stack on entry to a handler: the exception is pushed onto the
\* stack as the faulting instruction left it.
HandlerEntryStack(stack, exception) == Append(stack, ObjectValue(exception))

(***************************************************************************)
(* CallFrame::execute, one turn of its loop: what the frame and its caller *)
(* see of the result of one instruction.  `below` are the caller's frames. *)
(***************************************************************************)
Ended(below, result, search) ==
    [frames |-> below, pending |-> Some(result), search |-> search]

Goes(below, frame, search) ==
    [frames |-> Append(below, frame), pending |-> None, search |-> search]

NoSearch == [kind |-> "", pc |-> 0, err |-> ""]

\* The arm Err(ExceptionThrown(exception)) of the loop of `execute`, once
\* find_exception_handler has answered
enter_handler(below, result, exception_handler) ==
        CASE exception_handler.kind = "failed" ->
                Ended(below, FailedInternal(exception_handler.err),
                      exception_handler)
          [] exception_handler.kind = "none" ->
                Ended(below, FailedException(result.obj), exception_handler)
          [] exception_handler.kind = "handler" ->
                IF StackFull(result.frame)
                THEN Ended(below, FailedInternal("ValidationException"),
                           exception_handler)
                ELSE Goes(below,
                          [result.frame EXCEPT
                              !.stack = HandlerEntryStack(@, result.obj),
                              !.pc = exception_handler.pc],
                          exception_handler)

on_exception_thrown(below, result, objects) ==
    enter_handler(below, result,
                  find_exception_handler(result.frame, result.obj, objects))

\* A loop that offered internal errors to the handlers as it offers
\* exceptions, the error standing as the object of handle 3.
on_internal_error_Offered(below, result, objects) ==
    on_exception_thrown(below, [result EXCEPT !.obj = 3], objects)

\* The arm Err(InternalError(err)) of the loop of `execute`
on_internal_error(below, result, objects) ==
    Ended(below, FailedInternal(result.err), NoSearch)

execute(below, result, objects) ==
    CASE result.kind = "return" ->
            Ended(below, Returned(result.val), NoSearch)
      [] result.kind = "continue" ->
            Goes(below, result.frame, NoSearch)
      [] result.kind = "internal" ->
            on_internal_error(below, result, objects)
      [] result.kind = "exception" ->
            on_exception_thrown(below, result, objects)

(***************************************************************************)
(* Instructions, each as the result it gives on the frame whose pc has     *)
(* already been moved past it.                                             *)
(***************************************************************************)
execute_aload(frame, index) ==
    IF index + 1 > Len(frame.locals)
    THEN FromVmError(frame, "ValidationException")
    ELSE LET local == frame.locals[index + 1] IN
         IF local.tag \in {"Object", "Null"}
         THEN push(frame, local)
         ELSE InternalError(frame, "ValidationException")

execute_athrow(frame) ==
    IF frame.stack = <<>>
    THEN InternalError(frame, "ValidationException")
    ELSE LET obj == TopValue(frame) IN
         IF obj.tag = "Object"
         THEN ExceptionThrown(Popped(frame), obj.v)
         ELSE InternalError(Popped(frame), "ValidationException")

execute_return(frame) ==
    IF ~is_void(frame.class_and_method)
    THEN InternalError(frame, "ValidationException")
    ELSE ReturnFromMethod(frame, NoValue)

\* generate_pop!: the popped value must carry the wanted tag
pop_typed(frame, tag) ==
    IF frame.stack = <<>>
    THEN FromVmError(frame, "ValidationException")
    ELSE IF TopValue(frame).tag = tag
         THEN ContinueMethodExecution(Popped(frame))
         ELSE InternalError(Popped(frame), "ValidationException")

\* The widths of the integers: an int (i32) has IntBits bits and a long
\* (i64) twice as many.
IntBits  == 4
LongBits == 2 * IntBits

MinValue(bits) == -(2 ^ (bits - 1))
MaxValue(bits) == 2 ^ (bits - 1) - 1

\* The two's-complement value of n in `bits` bits
wrap(n, bits) == ((n + 2 ^ (bits - 1)) % (2 ^ bits)) - 2 ^ (bits - 1)

\* An operation of Rust that panicked instead of returning
PanicResult == [ok |-> FALSE, v |-> 0, err |-> "panic"]

\* Division and remainder truncate toward zero.
Abs(n) == IF n < 0 THEN -n ELSE n
Sign(n) == IF n < 0 THEN -1 ELSE 1
quotient(a, b) == Sign(a) * Sign(b) * (Abs(a) \div Abs(b))

\* i32::wrapping_div and i32::wrapping_rem: the quotient that does not fit,
\* MIN / -1, wraps to MIN, and its remainder is 0.
wrapping_div(a, b) == wrap(quotient(a, b), IntBits)
wrapping_rem(a, b) == a - b * quotient(a, b)

\* `/` and `%` of Rust on i64: a panic in every build when the quotient
\* does not fit (MIN / -1 and MIN % -1).
div(a, b) ==
    IF quotient(a, b) = wrap(quotient(a, b), LongBits)
    THEN Ok(quotient(a, b)) ELSE PanicResult
rem(a, b) ==
    IF quotient(a, b) = wrap(quotient(a, b), LongBits)
    THEN Ok(a - b * quotient(a, b)) ELSE PanicResult

\* The closures passed to execute_int_math and execute_long_math for the
\* division and remainder instructions.
evaluator(op, a, b) ==
    CASE op = "idiv" ->
            IF b = 0 THEN Err("ArithmeticException") ELSE Ok(wrapping_div(a, b))
      [] op = "irem" ->
            IF b = 0 THEN Err("ArithmeticException") ELSE Ok(wrapping_rem(a, b))
      [] op = "ldiv" ->
            IF b = 0 THEN Err("ArithmeticException") ELSE div(a, b)
      [] op = "lrem" ->
            IF b = 0 THEN Err("ArithmeticException") ELSE rem(a, b)

\* generate_execute_math!: pop val2, pop val1, evaluate, push the result
execute_math(frame, op, tag) ==
    LET pop2 == pop_typed(frame, tag) IN
    IF pop2.kind # "continue" THEN pop2
    ELSE LET pop1 == pop_typed(pop2.frame, tag) IN
         IF pop1.kind # "continue" THEN pop1
         ELSE LET result == evaluator(op, TopValue(pop2.frame).v, TopValue(frame).v) IN
              IF result.ok
              THEN push(pop1.frame, [tag |-> tag, v |-> result.v])
              ELSE IF result.err = "panic"
                   THEN Panicked(pop1.frame)
                   ELSE FromVmError(pop1.frame, result.err)

execute_int_math(frame, op)  == execute_math(frame, op, "Int")
execute_long_math(frame, op) == execute_math(frame, op, "Long")

\* generate_execute_return!
execute_typed_return(frame, base_type) ==
    IF ~(/\ frame.class_and_method.type_descriptor.ret.k = "Base"
         /\ frame.class_and_method.type_descriptor.ret.t = base_type)
    THEN InternalError(frame, "ValidationException")
    ELSE IF frame.stack = <<>>
         THEN FromVmError(frame, "ValidationException")
         ELSE ReturnFromMethod(Popped(frame), Some(TopValue(frame)))

execute_areturn(frame) ==
    IF frame.stack = <<>>
    THEN FromVmError(frame, "ValidationException")
    ELSE ReturnFromMethod(Popped(frame), Some(TopValue(frame)))

\* Value::matches_type
matches_type(value, expected_type, objects) ==
    CASE value.tag = "Uninitialized" -> FALSE
      [] value.tag = "Int" ->
            /\ expected_type.k = "Base"
            /\ expected_type.t \in {"Int", "Byte", "Char", "Short", "Boolean"}
      [] value.tag = "Long" ->
            expected_type.k = "Base" /\ expected_type.t = "Long"
      [] value.tag = "Float" ->
            expected_type.k = "Base" /\ expected_type.t = "Float"
      [] value.tag = "Double" ->
            expected_type.k = "Base" /\ expected_type.t = "Double"
      [] value.tag = "Object" ->
            IF objects[value.v].kind = "Array"
            THEN /\ expected_type.k = "Array"
                 /\ objects[value.v].elements_type.k = expected_type.of
                 /\ objects[value.v].elements_type.t = expected_type.t
            ELSE /\ expected_type.k = "Object"
                 /\ expected_type.t \in ClassNames
                 /\ is_subclass_of(objects[value.v].class, expected_type.t)
      [] value.tag = "Null" -> expected_type.k \in {"Object", "Array"}

validate_type(expected_type, value, objects) ==
    matches_type(value, expected_type, objects)

\* A caller that took whatever came back from the method
validate_type_opt_Unchecked(expected_type, value, objects) == TRUE

validate_type_opt(expected_type, value, objects) ==
    IF ~expected_type.some
    THEN ~value.some
    ELSE value.some /\ validate_type(expected_type.v, value.v, objects)

(***************************************************************************)
(* Objects and arrays.                                                     *)
(***************************************************************************)
\* Class::find_field: the index and the type of a field, superclass fields
\* first.  A declares the int field f; its subclass B inherits it.  Main
\* declares the static field s of type Object.
find_field(class, field_name) ==
    CASE is_subclass_of(class, "A") /\ field_name = "f" ->
            Some([index |-> 1, type_descriptor |-> Base("Int")])
      [] class = "Main" /\ field_name = "s" ->
            Some([index |-> 1, type_descriptor |-> ObjectType(JavaLangObject)])
      [] class = "S" /\ field_name = "t" ->
            Some([index |-> 1, type_descriptor |-> ObjectType(JavaLangObject)])
      [] OTHER -> None

FieldReference(class_name, field_name) ==
    [class_name |-> class_name, field_name |-> field_name]

execute_getfield(frame, field_reference, objects) ==
    IF frame.stack = <<>> THEN FromVmError(frame, "ValidationException")
    ELSE
    LET object == TopValue(frame)
        popped == Popped(frame)
    IN
    IF object.tag = "Object" /\ objects[object.v].kind = "Object"
    THEN LET field == find_field(objects[object.v].class, field_reference.field_name) IN
         IF ~field.some THEN FromVmError(popped, "FieldNotFoundException")
         ELSE LET field_value == objects[object.v].fields[field.v.index] IN
              IF ~validate_type(field.v.type_descriptor, field_value, objects)
              THEN FromVmError(popped, "ValidationException")
              ELSE push(popped, field_value)
    ELSE InternalError(popped, "ValidationException")

\* execute_putfield: the result, and the objects as the instruction leaves them
execute_putfield(frame, field_reference, objects) ==
    IF frame.stack = <<>>
    THEN [result |-> FromVmError(frame, "ValidationException"), objects |-> objects]
    ELSE
    LET value  == TopValue(frame)
        popped == Popped(frame)
    IN
    IF popped.stack = <<>>
    THEN [result |-> FromVmError(popped, "ValidationException"), objects |-> objects]
    ELSE
    LET object == TopValue(popped)
        left   == Popped(popped)
    IN
    IF object.tag = "Object" /\ objects[object.v].kind = "Object"
    THEN LET field == find_field(objects[object.v].class, field_reference.field_name) IN
         IF ~field.some
         THEN [result |-> FromVmError(left, "FieldNotFoundException"),
               objects |-> objects]
         ELSE IF ~validate_type(field.v.type_descriptor, value, objects)
              THEN [result |-> FromVmError(left, "ValidationException"),
                    objects |-> objects]
              ELSE [result |-> ContinueMethodExecution(left),
                    objects |-> [objects EXCEPT
                                    ![object.v].fields[field.v.index] = value]]
    ELSE [result |-> InternalError(left, "ValidationException"), objects |-> objects]

\* A class reference of the constant pool: a class name, or "[L" name ";"
ClassReference(is_array, name) == [is_array |-> is_array, name |-> name]

\* CallFrame::is_instanceof
is_instanceof(class_reference, value, objects) ==
    LET expected_class == get_or_resolve_class(class_reference.name) IN
    IF ~expected_class.ok THEN Err(expected_class.err)
    ELSE CASE value.tag = "Null" -> Ok(FALSE)
           [] value.tag = "Object" ->
                IF objects[value.v].kind = "Object"
                THEN IF class_reference.is_array
                     THEN Ok(FALSE)
                     ELSE Ok(is_subclass_of(objects[value.v].class,
                                            expected_class.class))
                ELSE IF objects[value.v].elements_type.k = "Object"
                     THEN Ok(is_subclass_of(objects[value.v].elements_type.t,
                                            expected_class.class))
                     ELSE Ok(FALSE)
           [] OTHER -> Err("ValidationException")

execute_checkcast(frame, class_reference, objects) ==
    IF frame.stack = <<>> THEN FromVmError(frame, "ValidationException")
    ELSE
    LET value == TopValue(frame)
        is_instance_of == is_instanceof(class_reference, value, objects)
    IN
    IF ~is_instance_of.ok
    THEN InternalError(Popped(frame), is_instance_of.err)
    ELSE IF is_instance_of.v
         THEN push(Popped(frame), value)
         ELSE InternalError(Popped(frame), "ClassCastException")

\* CallFrame::pop_array
pop_array(frame, objects) ==
    IF frame.stack = <<>>
    THEN FromVmError(frame, "ValidationException")
    ELSE IF TopValue(frame).tag = "Object" /\ objects[TopValue(frame).v].kind = "Array"
         THEN ContinueMethodExecution(Popped(frame))
         ELSE InternalError(Popped(frame), "ValidationException")

execute_array_length(frame, objects) ==
    LET array == pop_array(frame, objects) IN
    IF array.kind # "continue" THEN array
    ELSE push(array.frame, IntValue(Len(objects[TopValue(frame).v].fields)))

\* Array::get_element and Array::set_element, the index counted from 0
get_element(array, index) ==
    IF index >= 0 /\ index < Len(array.fields)
    THEN Ok(array.fields[index + 1])
    ELSE Err("ArrayIndexOutOfBoundsException")

set_element(array, index, value) ==
    IF index >= 0 /\ index < Len(array.fields)
    THEN Ok([array EXCEPT !.fields[index + 1] = value])
    ELSE Err("ArrayIndexOutOfBoundsException")

\* generate_execute_array_load!: pop the index, pop the array, push the element
execute_array_load(frame, elements_types, objects) ==
    LET index == pop_typed(frame, "Int") IN
    IF index.kind # "continue" THEN index
    ELSE LET array == pop_array(index.frame, objects) IN
         IF array.kind # "continue" THEN array
         ELSE LET the_array == objects[TopValue(index.frame).v] IN
              IF the_array.elements_type \notin elements_types
              THEN InternalError(array.frame, "ValidationException")
              ELSE LET value == get_element(the_array, TopValue(frame).v) IN
                   IF ~value.ok
                   THEN FromVmError(array.frame, value.err)
                   ELSE push(array.frame, value.v)

\* generate_execute_array_store!: pop the value, the index and the array, and
\* set the element
execute_array_store(frame, value_tag, elements_types, objects) ==
    LET value == pop_typed(frame, value_tag) IN
    IF value.kind # "continue" THEN [result |-> value, objects |-> objects]
    ELSE LET index == pop_typed(value.frame, "Int") IN
    IF index.kind # "continue" THEN [result |-> index, objects |-> objects]
    ELSE LET array == pop_array(index.frame, objects) IN
    IF array.kind # "continue" THEN [result |-> array, objects |-> objects]
    ELSE LET handle    == TopValue(index.frame).v
             the_array == objects[handle]
         IN
         IF the_array.elements_type \notin elements_types
         THEN [result |-> InternalError(array.frame, "ValidationException"),
               objects |-> objects]
         ELSE LET stored == set_element(the_array, TopValue(value.frame).v,
                                        TopValue(frame))
              IN  IF ~stored.ok
                  THEN [result |-> FromVmError(array.frame, stored.err),
                        objects |-> objects]
                  ELSE [result |-> ContinueMethodExecution(array.frame),
                        objects |-> [objects EXCEPT ![handle] = stored.v]]

(***************************************************************************)
(* The state machine.                                                      *)
(***************************************************************************)
Top     == frames[Len(frames)]
Below   == SubSeq(frames, 1, Len(frames) - 1)
Running == frames # <<>> /\ ~pending.some

\* Instruction::parse and the move of pc past the instruction
Fetched(len) ==
    [Top EXCEPT !.executed_instruction_pc = Top.pc, !.pc = Top.pc + len]

Parses(len) == Top.pc + len <= CodeLen

\* What the instruction names in the constant pool, and the number its operand
\* bytes hold, for the record of a step
Operand(class_name, name, kind) ==
    [class_name |-> class_name, name |-> name, kind |-> kind, immediate |-> 0]
NoOperand == Operand("", "", "")

Event(op, operand, result, out) ==
    [op     |-> op,
     operand |-> operand,
     depth  |-> Len(frames),
     method |-> Top.class_and_method.name,
     pc     |-> result.frame.executed_instruction_pc,
     pre    |-> Top.stack,
     at     |-> result.frame.stack,
     locals |-> result.frame.locals,
     res    |-> result.kind,
     err    |-> result.err,
     obj    |-> result.obj,
     search |-> out.search,
     callee |-> IF result.kind = "call"
                THEN Operand(result.class_and_method.class,
                             result.class_and_method.name,
                             IF method_of(result.class_and_method).is_native
                             THEN "native" ELSE "bytecode")
                ELSE NoOperand]

NoEvent ==
    [op |-> "", operand |-> NoOperand, depth |-> 0, method |-> "", pc |-> 0, pre |-> <<>>, at |-> <<>>,
     locals |-> <<>>, res |-> "", err |-> "", obj |-> 0, search |-> NoSearch, callee |-> NoOperand]

\* A panic unwinds every frame of the call stack and ends the process.
Unwound == [frames |-> <<>>, pending |-> None, search |-> NoSearch]

\* One turn of the loop of CallFrame::execute for an instruction that calls
\* no method: the instruction's result goes through `execute`.
StepOn(op, operand, instruction_result) ==
    \E result \in {instruction_result} :
    \E out \in {IF result.kind = "panic" THEN Unwound
                ELSE execute(Below, result, heap)} :
        /\ frames' = out.frames
        /\ pending' = out.pending
        /\ ev' = Event(op, operand, result, out)
        /\ UNCHANGED <<classes, class_path>>

Step(op, result) == StepOn(op, NoOperand, result)

ParseError ==
    /\ Running
    /\ \E len \in {1, 3} : ~Parses(len)
    /\ Step("parse", InternalError(
               [Top EXCEPT !.executed_instruction_pc = Top.pc],
               "ValidationException"))
    /\ UNCHANGED heap

Aconst_null ==
    /\ Running /\ Parses(1)
    /\ Step("aconst_null", push(Fetched(1), Null))
    /\ UNCHANGED heap

Aload ==
    /\ Running /\ Parses(1)
    /\ \E index \in 0..1 : Step("aload", execute_aload(Fetched(1), index))
    /\ UNCHANGED heap

Athrow ==
    /\ Running /\ Parses(1)
    /\ Step("athrow", execute_athrow(Fetched(1)))
    /\ UNCHANGED heap

Return ==
    /\ Running /\ Parses(1)
    /\ Step("return", execute_return(Fetched(1)))
    /\ UNCHANGED heap

Unsupported_Skipped ==
    /\ Running /\ Parses(1)
    /\ Step("unsupported", ContinueMethodExecution(Fetched(1)))
    /\ UNCHANGED heap

\* invokedynamic, jsr, jsr_w, ret, tableswitch, lookupswitch, multianewarray,
\* goto_w and wide fall to the last arm of execute_instruction.
Unsupported ==
    /\ Running /\ Parses(1)
    /\ Step("unsupported", InternalError(Fetched(1), "NotImplemented"))
    /\ UNCHANGED heap

(***************************************************************************)
(* Method invocation (CallFrame::invoke_method).                           *)
(***************************************************************************)
MethodReference(class_name, method_name, type_descriptor) ==
    [class_name |-> class_name, method_name |-> method_name,
     type_descriptor |-> type_descriptor]

get_method_of_class(class, method_reference) ==
    LET method == find_method(class, method_reference.method_name,
                              method_reference.type_descriptor)
    IN  IF method.some
        THEN Ok(ClassAndMethod(class, method.v))
        ELSE Err("MethodNotFoundException")

RECURSIVE get_method_checking_superclasses(_, _)
get_method_checking_superclasses(class, method_reference) ==
    LET method == find_method(class, method_reference.method_name,
                              method_reference.type_descriptor)
    IN  IF method.some
        THEN Ok(ClassAndMethod(class, method.v))
        ELSE IF superclass(class).some
             THEN get_method_checking_superclasses(superclass(class).v,
                                                   method_reference)
             ELSE Err("MethodNotFoundException")

get_method_to_invoke_statically(method_reference, kind) ==
    LET class == get_or_resolve_class(method_reference.class_name) IN
    IF ~class.ok THEN Err(class.err)
    ELSE IF kind \in {"Special", "Static"}
         THEN get_method_of_class(class.class, method_reference)
         ELSE get_method_checking_superclasses(class.class, method_reference)

\* An invokevirtual bound to the method its reference names
resolve_virtual_method_Static(receiver, class_and_method, objects) ==
    Ok(class_and_method)

resolve_virtual_method(receiver, class_and_method, objects) ==
    IF receiver.some /\ objects[receiver.v].kind = "Object"
    THEN get_method_checking_superclasses(
             objects[receiver.v].class,
             MethodReference(class_and_method.class, class_and_method.name,
                             class_and_method.type_descriptor))
    ELSE Err("ValidationException")

\* An Uninitialized slot follows every Long and Double parameter.
RECURSIVE fix_long_and_double_params(_)
fix_long_and_double_params(params) ==
    IF params = <<>> THEN <<>>
    ELSE IF Head(params).tag \in {"Long", "Double"}
         THEN <<Head(params), Uninitialized>> \o fix_long_and_double_params(Tail(params))
         ELSE <<Head(params)>> \o fix_long_and_double_params(Tail(params))

new_stack_len(frame, class_and_method) ==
    Len(frame.stack) - num_arguments(class_and_method)
        - (IF is_static(class_and_method) THEN 0 ELSE 1)

get_method_receiver_and_params(frame, class_and_method) ==
    LET cur_stack_len == Len(frame.stack)
        num_params    == num_arguments(class_and_method)
        base          == new_stack_len(frame, class_and_method)
        params        == fix_long_and_double_params(
                             SubSeq(frame.stack, cur_stack_len - num_params + 1,
                                    cur_stack_len))
    IN  IF base < 0 THEN Err("ValidationException")
        ELSE IF is_static(class_and_method)
             THEN Ok([receiver |-> None, params |-> params, new_stack_len |-> base])
             ELSE IF frame.stack[base + 1].tag = "Object"
                  THEN Ok([receiver |-> Some(frame.stack[base + 1].v),
                           params |-> params, new_stack_len |-> base])
                  ELSE Err("ValidationException")

\* The Call a frame makes: the caller as invoke_method leaves it when it
\* enters vm.invoke, the method invoked, its receiver and its parameters.
Call(frame, class_and_method, receiver, params) ==
    [kind |-> "call", frame |-> frame, val |-> NoValue, err |-> "", obj |-> 0,
     class_and_method |-> class_and_method, receiver |-> receiver,
     params |-> params]

invoke_method(frame, method_reference, kind, objects) ==
    LET static_method_reference ==
            get_method_to_invoke_statically(method_reference, kind)
    IN
    IF ~static_method_reference.ok
    THEN InternalError(frame, static_method_reference.err)
    ELSE
    LET receiver_and_params ==
            get_method_receiver_and_params(frame, static_method_reference.v)
    IN
    IF ~receiver_and_params.ok
    THEN FromVmError(frame, receiver_and_params.err)
    ELSE
    LET class_and_method ==
            IF kind \in {"Virtual", "Interface"}
            THEN resolve_virtual_method(receiver_and_params.v.receiver,
                                        static_method_reference.v, objects)
            ELSE static_method_reference
    IN
    IF ~class_and_method.ok
    THEN InternalError(frame, class_and_method.err)
    ELSE Call([frame EXCEPT
                  !.stack = SubSeq(@, 1, receiver_and_params.v.new_stack_len),
                  !.method_return_type = return_type(class_and_method.v),
                  !.invoking = TRUE],
              class_and_method.v,
              receiver_and_params.v.receiver,
              receiver_and_params.v.params)

\* A caller that went on after the method it invoked had thrown
invoke_failed_Swallowed(caller, result) == ContinueMethodExecution(caller)

\* The `?` on vm.invoke: the failure of the invoked method is the failure of
\* the invoke instruction.
invoke_failed(caller, result) ==
    IF result.kind = "internal"
    THEN InternalError(caller, result.err)
    ELSE ExceptionThrown(caller, result.obj)

\* invoke_method after vm.invoke has returned `result` to the frame
invoke_method_returned(frame, result, objects) ==
    LET caller == [frame EXCEPT !.method_return_type = NoType, !.invoking = FALSE] IN
    CASE result.kind \in {"internal", "exception"} -> invoke_failed(caller, result)
      [] result.kind = "return" ->
            IF ~validate_type_opt(frame.method_return_type, result.val, objects)
            THEN FromVmError(caller, "ValidationException")
            ELSE IF result.val.some
                 THEN push(caller, result.val.v)
                 ELSE ContinueMethodExecution(caller)

(***************************************************************************)
(* Vm::invoke: a frame for the method, with the receiver and the           *)
(* parameters in its leading locals, is pushed on the call stack and run;  *)
(* when it ends it is popped and its result goes to the caller.            *)
(***************************************************************************)
RECURSIVE Padded(_, _)
Padded(locals, max_locals) ==
    IF Len(locals) >= max_locals THEN locals
    ELSE Padded(Append(locals, Uninitialized), max_locals)

Vm_invoke(class_and_method, receiver, params) ==
    CallFrame(class_and_method,
              Padded((IF receiver.some THEN <<ObjectValue(receiver.v)>> ELSE <<>>)
                        \o params,
                     method_of(class_and_method).max_locals))

\* What the native callback of a method may hand back is None or Some of
\* one of these values.
NativeValues == { IntValue(1), Null }

\* The callbacks of the methods of NativeReturns hand back a value of any
\* kind: 5 is an array of B next to the objects of InitialHeap.
TypesHeap ==
    [h \in 1..5 |->
        IF h \in DOMAIN InitialHeap THEN InitialHeap[h]
        ELSE Array(ObjectType("B"), [i \in 1..ArrayLength |-> Null])]

TypeValues ==
    { Uninitialized, IntValue(1), LongValue(1), FloatValue(0), DoubleValue(0), Null }
    \cup { ObjectValue(h) : h \in DOMAIN TypesHeap }

NativeValuesOf(class_and_method) ==
    IF class_and_method.name \in DOMAIN NativeReturns
    THEN TypeValues ELSE NativeValues

\* An invoke instruction: it fails in the frame, or the frame enters vm.invoke.
Invoke(op, len, method_reference, kind, max_depth) ==
    /\ Parses(len)
    /\ \E result \in {invoke_method(Fetched(len), method_reference, kind, heap)} :
       \E reference \in {Operand(method_reference.class_name,
                                 method_reference.method_name, kind)} :
          IF result.kind = "call"
          THEN /\ IF method_of(result.class_and_method).is_native
                  THEN \E some \in BOOLEAN,
                          value \in NativeValuesOf(result.class_and_method) :
                          /\ frames' = Append(Below, result.frame)
                          /\ pending' = Some(Returned(IF some THEN Some(value)
                                                               ELSE NoValue))
                  ELSE /\ Len(frames) < max_depth
                       /\ frames' = Below \o << result.frame,
                                                Vm_invoke(result.class_and_method,
                                                          result.receiver,
                                                          result.params) >>
                       /\ pending' = None
               /\ ev' = Event(op, reference, result, [search |-> NoSearch])
               /\ UNCHANGED <<classes, class_path>>
          ELSE StepOn(op, reference, result)
    /\ UNCHANGED heap

\* vm.invoke returns to invoke_method in the caller, and the caller's loop
\* goes on with the result of its invoke instruction.
InvokeReturn ==
    /\ frames # <<>> /\ pending.some
    /\ Step("invoke_return", invoke_method_returned(Top, pending.v, heap))
    /\ UNCHANGED heap

(***************************************************************************)
(* Throwing and catching: the entry method is called with one object and   *)
(* its code loads it, throws, calls and returns.                           *)
(***************************************************************************)
ThrowEntries == {"outer", "inner", "broken"}

\* Main.nosuch is declared nowhere, and no class path entry has Missing.
ThrowRefs ==
    { MethodReference(class_name, name,
                      Descriptor(<<ObjectType(JavaLangObject)>>, Void))
        : class_name \in {"Main"}, name \in {"outer", "inner", "broken", "nosuch"} }
    \cup { MethodReference("Missing", "outer",
                           Descriptor(<<ObjectType(JavaLangObject)>>, Void)) }

InitThrow ==
    /\ \E name \in ThrowEntries, h \in 1..3 :
          frames = << Vm_invoke(
                        ClassAndMethod("Main",
                            find_method("Main", name,
                                Descriptor(<<ObjectType(JavaLangObject)>>, Void)).v),
                        None, <<ObjectValue(h)>>) >>
    /\ pending = None
    /\ heap = InitialHeap
    /\ Loaded
    /\ ev = NoEvent

Invokestatic(refs, max_depth) ==
    /\ Running
    /\ \E method_reference \in refs :
          Invoke("invokestatic", 3, method_reference, "Static", max_depth)

NextThrow ==
    \/ ParseError
    \/ Aconst_null
    \/ Aload
    \/ Athrow
    \/ Return
    \/ Invokestatic(ThrowRefs, MaxDepth)
    \/ InvokeReturn
    \/ Unsupported

SpecThrow == InitThrow /\ [][NextThrow]_vars

(***************************************************************************)
(* Properties of exception handling.                                       *)
(***************************************************************************)
\* The step taken last raised an exception in its frame and the frame's own
\* exception table caught it.
CaughtInFrame == ev.res = "exception" /\ ev.search.kind = "handler"

\* C1: when a handler of the frame catches an exception raised by one of the
\* frame's instructions, the frame resumes at handler_pc with an operand stack
\* holding exactly the thrown object, whatever the stack held at the fault, and
\* entering the handler never fails because the stack is full.
C1_HandlerEntryStackIsTheException ==
    CaughtInFrame =>
        /\ ~pending.some
        /\ Len(frames) = ev.depth
        /\ Top.pc = ev.search.pc
        /\ Top.stack = <<ObjectValue(ev.obj)>>

\* The exception table of the method that took the last step
TableOfEvent ==
    methods("Main", ev.method).v.exception_table

\* The entries that qualify for an exception of class `class` thrown at `pc`
Qualifying(table, pc, class) ==
    { i \in 1..Len(table) :
        /\ table[i].start_pc <= pc
        /\ pc < table[i].end_pc
        /\ \/ ~table[i].catch_class.some
           \/ /\ table[i].catch_class.v \in ClassNames
              /\ is_subclass_of(class, table[i].catch_class.v) }

Least(S) == CHOOSE i \in S : \A j \in S : i <= j

\* C2: the handler chosen for an exception thrown at an instruction is the
\* first entry, in table order, whose range [start_pc, end_pc) holds the pc of
\* the faulting instruction (not the pc of the next one) and whose catch class
\* is absent or a class the thrown object's class is a subclass of; if no
\* entry qualifies the frame has no handler.
C2_FirstQualifyingEntryIsChosen ==
    ev.res = "exception" =>
        LET qualifying == Qualifying(TableOfEvent, ev.pc, heap[ev.obj].class) IN
        /\ ev.search.kind = "handler" =>
              /\ qualifying # {}
              /\ ev.search.pc = TableOfEvent[Least(qualifying)].handler_pc
        /\ qualifying = {} => ev.search.kind = "none"

\* An A thrown at the last instruction of the second entry's range of
\* Main.outer (pc 2, the next instruction being outside the range) is caught
\* by that entry after the first entry, which ends at pc 2, was passed over.
C2_Witness ==
    /\ ev.res = "exception"
    /\ ev.method = "outer"
    /\ ev.pc = 2
    /\ heap[ev.obj].class = "A"
    /\ ev.search.kind = "handler"
    /\ ev.search.pc = 2


(***************************************************************************)
(* Integer division: Main.compute()I, whose whole code lies in a catch-any *)
(* range, pushes constants, divides and returns.                           *)
(***************************************************************************)
Iconst ==
    /\ Running /\ Parses(1)
    /\ \E value \in 0..ArrayLength : Step("iconst", push(Fetched(1), IntValue(value)))
    /\ UNCHANGED heap

Lconst ==
    /\ Running /\ Parses(1)
    /\ \E value \in {0, 1} : Step("lconst", push(Fetched(1), LongValue(value)))
    /\ UNCHANGED heap

Idiv ==
    /\ Running /\ Parses(1)
    /\ Step("idiv", execute_int_math(Fetched(1), "idiv"))
    /\ UNCHANGED heap

Irem ==
    /\ Running /\ Parses(1)
    /\ Step("irem", execute_int_math(Fetched(1), "irem"))
    /\ UNCHANGED heap

Ldiv ==
    /\ Running /\ Parses(1)
    /\ Step("ldiv", execute_long_math(Fetched(1), "ldiv"))
    /\ UNCHANGED heap

Lrem ==
    /\ Running /\ Parses(1)
    /\ Step("lrem", execute_long_math(Fetched(1), "lrem"))
    /\ UNCHANGED heap

Ireturn ==
    /\ Running /\ Parses(1)
    /\ Step("ireturn", execute_typed_return(Fetched(1), "Int"))
    /\ UNCHANGED heap

InitArith ==
    /\ frames = << Vm_invoke(
                     ClassAndMethod("Main",
                         find_method("Main", "compute",
                                     Descriptor(<<>>, Base("Int"))).v),
                     None, <<>>) >>
    /\ pending = None
    /\ heap = InitialHeap
    /\ Loaded
    /\ ev = NoEvent

NextArith ==
    \/ ParseError
    \/ Iconst
    \/ Lconst
    \/ Idiv
    \/ Irem
    \/ Ldiv
    \/ Lrem
    \/ Ireturn

SpecArith == InitArith /\ [][NextArith]_vars

\* The step taken last divided by zero: the instruction found two operands of
\* its type on the stack, the upper one zero.
DividedByZero ==
    /\ ev.op \in {"idiv", "irem", "ldiv", "lrem"}
    /\ Len(ev.pre) >= 2
    /\ ev.pre[Len(ev.pre)].tag = (IF ev.op \in {"idiv", "irem"} THEN "Int" ELSE "Long")
    /\ ev.pre[Len(ev.pre) - 1].tag = ev.pre[Len(ev.pre)].tag
    /\ ev.pre[Len(ev.pre)].v = 0

\* C3: idiv, irem, ldiv and lrem with a zero divisor raise a Java exception
\* that the frame's handler search sees: inside a catch-any range the method
\* goes on at the handler; the division never ends the run as an
\* interpreter-internal error.
C3_DivisionByZeroIsThrown ==
    DividedByZero =>
        /\ ev.res = "exception"
        /\ ev.search.kind = "handler"
        /\ ~pending.some
        /\ Top.pc = ev.search.pc

(***************************************************************************)
(* Fields, casts and arrays: Main.access(A, int[]), whose whole code lies  *)
(* in a catch-any range, works on its two parameters.                      *)
(***************************************************************************)
Getfield ==
    /\ Running /\ Parses(3)
    /\ \E field_name \in {"f", "g"} :
          Step("getfield",
               execute_getfield(Fetched(3), FieldReference("A", field_name), heap))
    /\ UNCHANGED heap

Putfield ==
    /\ Running /\ Parses(3)
    /\ \E field_name \in {"f", "g"} :
          LET done == execute_putfield(Fetched(3), FieldReference("A", field_name),
                                       heap)
          IN  Step("putfield", done.result) /\ heap' = done.objects

Checkcast ==
    /\ Running /\ Parses(3)
    /\ \E class_reference \in
             { ClassReference(FALSE, "A"), ClassReference(FALSE, "B"),
               ClassReference(FALSE, "Missing"), ClassReference(TRUE, "A") } :
          StepOn("checkcast",
                 Operand(class_reference.name, "",
                         IF class_reference.is_array THEN "array" ELSE "class"),
                 execute_checkcast(Fetched(3), class_reference, heap))
    /\ UNCHANGED heap

Arraylength ==
    /\ Running /\ Parses(1)
    /\ Step("arraylength", execute_array_length(Fetched(1), heap))
    /\ UNCHANGED heap

Iaload ==
    /\ Running /\ Parses(1)
    /\ Step("iaload", execute_array_load(Fetched(1), {Base("Int")}, heap))
    /\ UNCHANGED heap

Iastore ==
    /\ Running /\ Parses(1)
    /\ LET done == execute_array_store(Fetched(1), "Int", {Base("Int")}, heap) IN
       Step("iastore", done.result) /\ heap' = done.objects

InitRef ==
    /\ \E h \in 1..2 :
          frames = << Vm_invoke(
                        ClassAndMethod("Main",
                            methods("Main", "access").v),
                        None, <<ObjectValue(h), ObjectValue(4)>>) >>
    /\ pending = None
    /\ heap = InitialHeap
    /\ Loaded
    /\ ev = NoEvent

NextRef ==
    \/ ParseError
    \/ Aconst_null
    \/ Aload
    \/ Iconst
    \/ Getfield
    \/ Putfield
    \/ Checkcast
    \/ Arraylength
    \/ Iaload
    \/ Iastore
    \/ Athrow
    \/ Unsupported
    \/ Return

SpecRef == InitRef /\ [][NextRef]_vars


(***************************************************************************)
(* Properties of the instructions on references.                           *)
(***************************************************************************)
\* The value `below` places under the top of the stack the last step found
Operand_at(below) == ev.pre[Len(ev.pre) - below]

\* The step taken last was an instruction on a reference which found Null
\* where its object or array belongs, its other operands being in order.
NullReceiver ==
    \/ /\ ev.op \in {"getfield", "arraylength", "athrow"}
       /\ Len(ev.pre) >= 1
       /\ Operand_at(0).tag = "Null"
    \/ /\ ev.op = "putfield"
       /\ Len(ev.pre) >= 2
       /\ Operand_at(0).tag = "Int"
       /\ Operand_at(1).tag = "Null"
    \/ /\ ev.op = "iaload"
       /\ Len(ev.pre) >= 2
       /\ Operand_at(0).tag = "Int"
       /\ Operand_at(1).tag = "Null"
    \/ /\ ev.op = "iastore"
       /\ Len(ev.pre) >= 3
       /\ Operand_at(0).tag = "Int"
       /\ Operand_at(1).tag = "Int"
       /\ Operand_at(2).tag = "Null"

\* C4: a field access, an array load or store, arraylength or athrow that
\* finds Null in place of its object raises a Java exception (the
\* NullPointerException) that the frame's handler search sees, and never the
\* internal ValidationException.
C4_NullReceiverIsThrown ==
    NullReceiver =>
        /\ ev.res = "exception"
        /\ ev.err # "ValidationException"

\* The step taken last was a checkcast to a class of which the object on the
\* stack is no instance.
FailedCast ==
    /\ ev.op = "checkcast"
    /\ ev.operand.kind = "class"
    /\ ev.operand.class_name \in ClassNames
    /\ Len(ev.pre) >= 1
    /\ Operand_at(0).tag = "Object"
    /\ heap[Operand_at(0).v].kind = "Object"
    /\ ~is_subclass_of(heap[Operand_at(0).v].class, ev.operand.class_name)

\* C5: a checkcast that fails raises a Java exception (the
\* ClassCastException) that the frame's handler search sees: inside a
\* catch-any range the method goes on at the handler.
C5_FailedCastIsThrown ==
    FailedCast =>
        /\ ev.res = "exception"
        /\ ev.search.kind = "handler"

\* The step taken last, in the state it leads to, was an array load or store
\* whose index lies outside the array.
IndexOutOfRange ==
    \/ /\ ev.op = "iaload"
       /\ Len(ev.pre) >= 2
       /\ Operand_at(0).tag = "Int"
       /\ Operand_at(1).tag = "Object"
       /\ heap[Operand_at(1).v].kind = "Array"
       /\ ~(Operand_at(0).v \in 0..(Len(heap[Operand_at(1).v].fields) - 1))
    \/ /\ ev.op = "iastore"
       /\ Len(ev.pre) >= 3
       /\ Operand_at(0).tag = "Int"
       /\ Operand_at(1).tag = "Int"
       /\ Operand_at(2).tag = "Object"
       /\ heap[Operand_at(2).v].kind = "Array"
       /\ ~(Operand_at(1).v \in 0..(Len(heap[Operand_at(2).v].fields) - 1))

\* C6: an array load or store with an index outside the array raises a Java
\* exception (the ArrayIndexOutOfBoundsException) that the frame's handler
\* search sees, and leaves every array as it was.
C6_IndexOutOfRangeIsThrown ==
    [][ IndexOutOfRange' => (ev'.res = "exception" /\ heap' = heap) ]_vars


(***************************************************************************)
(* Invocation: Main.run(A) is called with an A or a B, and its code and    *)
(* the code of the methods it calls load, call and return.                 *)
(***************************************************************************)
InvokeRefs ==
    { MethodReference("A", "m", Descriptor(<<>>, Base("Int"))),
      MethodReference("B", "m", Descriptor(<<>>, Base("Int"))),
      MethodReference("I", "m", Descriptor(<<>>, Base("Int"))),
      MethodReference("B", "n", Descriptor(<<Base("Int")>>, Void)),
      MethodReference("B", "r", Descriptor(<<>>, ObjectType("A"))),
      MethodReference("Main", "s", Descriptor(<<Base("Int")>>, Base("Int"))),
      MethodReference("Main", "nat", Descriptor(<<>>, Base("Int"))) }

Invokevirtual ==
    /\ Running
    /\ \E method_reference \in InvokeRefs :
          Invoke("invokevirtual", 3, method_reference, "Virtual", CallDepth)

Invokeinterface ==
    /\ Running
    /\ \E method_reference \in InvokeRefs :
          Invoke("invokeinterface", 5, method_reference, "Interface", CallDepth)

Invokespecial ==
    /\ Running
    /\ \E method_reference \in InvokeRefs :
          Invoke("invokespecial", 3, method_reference, "Special", CallDepth)

Areturn ==
    /\ Running /\ Parses(1)
    /\ Step("areturn", execute_areturn(Fetched(1)))
    /\ UNCHANGED heap

InitInvoke ==
    /\ \E h \in 1..2 :
          frames = << Vm_invoke(
                        ClassAndMethod("Main",
                            methods("Main", "run").v),
                        None, <<ObjectValue(h)>>) >>
    /\ pending = None
    /\ heap = InitialHeap
    /\ Loaded
    /\ ev = NoEvent

NextInvoke ==
    \/ ParseError
    \/ Aload
    \/ Iconst
    \/ Invokevirtual
    \/ Invokeinterface
    \/ Invokespecial
    \/ Invokestatic(InvokeRefs, CallDepth)
    \/ InvokeReturn
    \/ Areturn
    \/ Ireturn
    \/ Return

SpecInvoke == InitInvoke /\ [][NextInvoke]_vars


(***************************************************************************)
(* Properties of the propagation of failures up the call stack.            *)
(***************************************************************************)
\* C7: an internal error raised by an instruction, or handed back by the
\* method an invoke instruction called, is never offered to the exception
\* table: the frame ends at once with that error as its result, also inside a
\* catch-any range, so that the error passes through every enclosing frame.
C7_InternalErrorEndsTheFrame ==
    ev.res = "internal" =>
        /\ ev.search.kind = ""
        /\ Len(frames) = ev.depth - 1
        /\ pending.some
        /\ pending.v.kind = "internal"
        /\ pending.v.err = ev.err

\* Main.outer called a method from inside its catch-any range [1, 4), the
\* method ended with the error of an unsupported instruction, and Main.outer,
\* the entry method, ended with it in its turn.
C7_Witness ==
    /\ ev.op = "invoke_return"
    /\ ev.res = "internal"
    /\ ev.err = "NotImplemented"
    /\ ev.method = "outer"
    /\ ev.pc \in 1..3
    /\ ev.depth = 1
    /\ frames = <<>>

\* C8: an exception no handler of its frame catches ends the frame and is
\* the result handed to the caller; the step that follows is the caller's,
\* which searches its own exception table at the pc of its invoke
\* instruction, so frames end innermost first and the exception is the
\* result of the entry method only when the call stack is empty.
C8_UncaughtExceptionGoesToTheCaller ==
    [][ /\ (ev'.res = "exception" /\ ev'.search.kind = "none") =>
              /\ Len(frames') = ev'.depth - 1
              /\ pending'.some
              /\ pending'.v.kind = "exception"
              /\ pending'.v.obj = ev'.obj
        /\ (pending.some /\ pending.v.kind = "exception" /\ frames # <<>>) =>
              LET table      == method_of(Top.class_and_method).exception_table
                  qualifying == Qualifying(table, Top.pc - 3,
                                           heap[pending.v.obj].class)
              IN  /\ ev'.op = "invoke_return"
                  /\ ev'.depth = Len(frames)
                  /\ ev'.res = "exception"
                  /\ ev'.obj = pending.v.obj
                  /\ ev'.pc = Top.pc - 3
                  /\ ev'.search.kind = "handler" =>
                        /\ qualifying # {}
                        /\ ev'.search.pc = table[Least(qualifying)].handler_pc
                  /\ qualifying = {} => ev'.search.kind = "none"
      ]_vars

\* An exception of class E that the method called at pc 1 of the entry method
\* Main.outer did not catch is caught by Main.outer's catch-any entry, whose
\* range [1, 4) holds the pc of the invoke and not the pc after it.
C8_Witness ==
    /\ ev.op = "invoke_return"
    /\ ev.res = "exception"
    /\ ev.depth = 1
    /\ ev.method = "outer"
    /\ ev.pc = 1
    /\ heap[ev.obj].class = "E"
    /\ ev.search.kind = "handler"
    /\ ev.search.pc = 1
    /\ Len(frames) = 1
    /\ Top.pc = 1

(***************************************************************************)
(* Properties of method dispatch.                                          *)
(***************************************************************************)
\* The first class, from `class` up its superclass chain, that declares a
\* method of the name (None when none does)
RECURSIVE FirstDeclaring(_, _)
FirstDeclaring(class, name) ==
    IF methods(class, name).some THEN Some(class)
    ELSE IF superclass(class).some
         THEN FirstDeclaring(superclass(class).v, name)
         ELSE NoClass

\* The receiver the invoke instruction of the last step found: the value
\* under the parameters of the method invoked.
ReceiverOfEvent ==
    ev.pre[Len(ev.pre)
             - Len(methods(ev.callee.class_name, ev.callee.name).v
                       .type_descriptor.params)]

\* C9: the method an invokevirtual or invokeinterface calls is the first of
\* the referenced name found from the receiver's runtime class up its
\* superclass chain; the method an invokespecial or invokestatic calls is the
\* one the referenced class itself declares; and the frame pushed runs it.
C9_DispatchedMethod ==
    ev.res = "call" =>
        /\ ev.callee.name = ev.operand.name
        /\ IF ev.operand.kind \in {"Virtual", "Interface"}
           THEN /\ Len(ev.pre) > Len(methods(ev.callee.class_name, ev.callee.name).v
                                         .type_descriptor.params)
                /\ ReceiverOfEvent.tag = "Object"
                /\ LET declaring ==
                           FirstDeclaring(heap[ReceiverOfEvent.v].class,
                                          ev.operand.name)
                   IN  declaring.some /\ ev.callee.class_name = declaring.v
           ELSE ev.callee.class_name = ev.operand.class_name
        /\ ev.callee.kind = "bytecode" =>
              /\ Len(frames) = ev.depth + 1
              /\ Top.class_and_method.class = ev.callee.class_name
              /\ Top.class_and_method.name = ev.callee.name

\* invokevirtual A.m on a B runs B.m, the override.
C9_Witness ==
    /\ ev.res = "call"
    /\ ev.op = "invokevirtual"
    /\ ev.operand.class_name = "A"
    /\ ev.operand.name = "m"
    /\ ev.callee.class_name = "B"
    /\ Top.class_and_method.class = "B"

\* The tag of a returned value against a declared return type
TagMatches(type, value) ==
    CASE type.k = "Base" /\ type.t = "Int"  -> value.tag = "Int"
      [] type.k = "Base" /\ type.t = "Long" -> value.tag = "Long"
      [] type.k \in {"Object", "Array"}     -> value.tag \in {"Object", "Null"}
      [] OTHER -> FALSE

\* The number of stack slots an invocation of the method takes
ArgumentsAndReceiver(method) ==
    Len(method.type_descriptor.params) + (IF method.is_static THEN 0 ELSE 1)

\* C10: an invoke instruction takes the arguments of the method, and the
\* receiver of a non-static method, off the caller's stack; nothing touches
\* the caller's frame while the method runs; and when the method returns,
\* the caller goes on with that stack followed by the returned value if and
\* only if the method is not void, whereas a value of the wrong tag, a value
\* from a void method or no value from a non-void method is not pushed and
\* ends the caller with a ValidationException.
C10_CallerStackAcrossInvoke ==
    [][ /\ ev'.res = "call" =>
              LET method == methods(ev'.callee.class_name, ev'.callee.name).v
                  caller == frames'[ev'.depth]
              IN  /\ caller.stack =
                        SubSeq(Top.stack, 1,
                               Len(Top.stack) - ArgumentsAndReceiver(method))
                  /\ caller.method_return_type.some
                        = (method.type_descriptor.ret.k # "Void")
                  /\ caller.method_return_type.some =>
                        caller.method_return_type.v = method.type_descriptor.ret
        /\ \A i \in 1..(Len(frames) - 1) :
              i <= Len(frames') => frames'[i] = frames[i]
        /\ (pending.some /\ pending.v.kind = "return" /\ frames # <<>>) =>
              LET type  == Top.method_return_type
                  value == pending.v.val
              IN  /\ ev'.op = "invoke_return"
                  /\ ev'.res = "continue" =>
                        /\ type.some = value.some
                        /\ Len(frames') = Len(frames)
                        /\ frames'[Len(frames)].stack =
                              IF type.some THEN Append(Top.stack, value.v)
                                           ELSE Top.stack
                  /\ ( \/ type.some # value.some
                       \/ type.some /\ ~TagMatches(type.v, value.v) ) =>
                        /\ ev'.res = "internal"
                        /\ ev'.err = "ValidationException"
                        /\ frames' = Below
      ]_vars

\* Main.s(I)I returned an int to a caller that had pushed its one argument on
\* an empty stack: the caller goes on with the returned int alone.
C10_Witness ==
    /\ ev.op = "invoke_return"
    /\ ev.res = "continue"
    /\ ev.depth = 1
    /\ ev.pre = <<>>
    /\ Len(ev.at) = 1
    /\ ev.at[1].tag = "Int"

(***************************************************************************)
(* Locals: Main.store, Main.storeJI(long, int) and Main.storeIJ(int, long) *)
(* have MaxLocals local slots; their code pushes constants, loads locals   *)
(* and stores into them.                                                   *)
(***************************************************************************)
\* A load that pushed the slot whatever it held
execute_load_Unchecked(frame, index, tags) ==
    IF index + 1 > Len(frame.locals)
    THEN FromVmError(frame, "ValidationException")
    ELSE push(frame, frame.locals[index + 1])

\* generate_execute_load!: the slot must hold a value of the wanted variant
execute_load(frame, index, tags) ==
    IF index + 1 > Len(frame.locals)
    THEN FromVmError(frame, "ValidationException")
    ELSE LET local == frame.locals[index + 1] IN
         IF local.tag \in tags
         THEN push(frame, local)
         ELSE InternalError(frame, "ValidationException")

\* generate_execute_store! and execute_astore: `self.locals[index] = value`
\* writes the one slot, and panics on an index past the locals.
execute_store(frame, index, tags) ==
    IF frame.stack = <<>>
    THEN FromVmError(frame, "ValidationException")
    ELSE LET value == TopValue(frame) IN
         IF value.tag \in tags
         THEN IF index + 1 > Len(frame.locals)
              THEN Panicked(Popped(frame))
              ELSE ContinueMethodExecution(
                       [Popped(frame) EXCEPT !.locals[index + 1] = value])
         ELSE InternalError(Popped(frame), "ValidationException")

\* The indexes the code names: every slot, and the first one past them.
LocalIndexes == 0..MaxLocals

\* xload_0 .. xload_3 are one byte long, xload index is two.
LocalLen(index) == IF index <= 3 THEN 1 ELSE 2

\* For the record of a step: what the slot held before the instruction.
LocalOperand(index) ==
    Operand("", "local",
            IF index + 1 > Len(Top.locals) THEN "" ELSE Top.locals[index + 1].tag)

LoadStore(op, index, result) ==
    /\ Running /\ Parses(LocalLen(index))
    /\ StepOn(op, LocalOperand(index), result)
    /\ UNCHANGED heap

Iload ==
    \E index \in LocalIndexes :
        /\ Running
        /\ LoadStore("iload", index,
                     execute_load(Fetched(LocalLen(index)), index, {"Int"}))

Lload ==
    \E index \in LocalIndexes :
        /\ Running
        /\ LoadStore("lload", index,
                     execute_load(Fetched(LocalLen(index)), index, {"Long"}))

Istore ==
    \E index \in LocalIndexes :
        /\ Running
        /\ LoadStore("istore", index,
                     execute_store(Fetched(LocalLen(index)), index, {"Int"}))

Lstore ==
    \E index \in LocalIndexes :
        /\ Running
        /\ LoadStore("lstore", index,
                     execute_store(Fetched(LocalLen(index)), index, {"Long"}))

Astore ==
    \E index \in LocalIndexes :
        /\ Running
        /\ LoadStore("astore", index,
                     execute_store(Fetched(LocalLen(index)), index,
                                   {"Object", "Null"}))

\* The arguments the entry method is invoked with, as its descriptor wants.
StoreEntries ==
    { [name |-> "store",   params |-> <<>>],
      [name |-> "storeJI", params |-> <<LongValue(1), IntValue(0)>>],
      [name |-> "storeIJ", params |-> <<IntValue(0), LongValue(1)>>] }

InitLocals ==
    /\ \E entry \in StoreEntries :
          frames = << Vm_invoke(
                        [class |-> "Main", name |-> entry.name,
                         type_descriptor |->
                             methods("Main", entry.name).v.type_descriptor],
                        None,
                        fix_long_and_double_params(entry.params)) >>
    /\ pending = None
    /\ heap = InitialHeap
    /\ Loaded
    /\ ev = NoEvent

NextLocals ==
    \/ ParseError
    \/ Aconst_null
    \/ Iconst
    \/ Lconst
    \/ Aload
    \/ Iload
    \/ Lload
    \/ Astore
    \/ Istore
    \/ Lstore
    \/ Return

SpecLocals == InitLocals /\ [][NextLocals]_vars

(***************************************************************************)
(* Properties of the operand stack and the locals of a frame.              *)
(***************************************************************************)
\* The instructions of this code that push one value and pop none
Pushes == {"aconst_null", "iconst", "lconst", "aload", "iload", "lload"}

\* C11: the operand stack of every frame holds at most max_stack values and
\* its locals are exactly max_locals slots; an instruction that would push
\* onto a full stack ends as the internal error ValidationException and
\* leaves the stack as it was.
C11_StackAndLocalsKeepTheirSize ==
    /\ \A i \in 1..Len(frames) :
          /\ Len(frames[i].stack) <= method_of(frames[i].class_and_method).max_stack
          /\ Len(frames[i].locals) = method_of(frames[i].class_and_method).max_locals
    /\ (ev.op \in Pushes /\ Len(ev.pre) = MaxStack) =>
          /\ ev.res = "internal"
          /\ ev.err = "ValidationException"
          /\ ev.at = ev.pre

\* A constant was pushed onto a full stack and refused.
C11_Witness ==
    /\ ev.op = "iconst"
    /\ Len(ev.pre) = MaxStack
    /\ ev.res = "internal"

\* C12: in every frame a Long or Double in a local slot is followed by an
\* Uninitialized slot, at invocation and after any stores.
C12_FillerFollowsLongAndDouble ==
    \A i \in 1..Len(frames) :
        \A slot \in 1..(Len(frames[i].locals) - 1) :
            frames[i].locals[slot].tag \in {"Long", "Double"} =>
                frames[i].locals[slot + 1] = Uninitialized

\* C13: no operand stack holds an Uninitialized value; a load from a slot
\* that is Uninitialized ends as ValidationException and pushes nothing.
C13_NoUninitializedOnTheStack ==
    /\ \A i \in 1..Len(frames) :
          \A at \in 1..Len(frames[i].stack) :
              frames[i].stack[at].tag # "Uninitialized"
    /\ (ev.op \in {"iload", "lload"} /\ ev.operand.kind = "Uninitialized") =>
          /\ ev.res = "internal"
          /\ ev.err = "ValidationException"
          /\ ev.at = ev.pre

\* The filler slot after the long parameter of Main.storeJI was loaded as an
\* int by its first instruction, and the load was refused.
C13_Witness ==
    /\ ev.op = "iload"
    /\ ev.method = "storeJI"
    /\ ev.operand.kind = "Uninitialized"
    /\ ev.pc = 0
    /\ ev.res = "internal"

(***************************************************************************)
(* Floating point values.  A float or a double is NaN, or a sign and a     *)
(* biased exponent as in its IEEE-754 bits: exponent 0 is zero, ExpInf is  *)
(* infinity and e between them is the power of two 2^(e - ExpBias).  The   *)
(* mantissa is left out, so the finite values are the powers of two from   *)
(* 2^(1 - ExpBias) to 2^ExpBias and a quotient below them underflows to    *)
(* zero.  The value is held as the number 2 * exponent + sign.             *)
(***************************************************************************)
ExpBias == 2
ExpInf  == 2 * ExpBias + 1

Fp(sign, exp) == 2 * exp + sign
NaN           == Fp(0, ExpInf + 1)
FloatCodes    == { Fp(sign, exp) : sign \in {0, 1}, exp \in 0..ExpInf } \cup {NaN}

sign_of(a)     == a % 2
exp_of(a)      == a \div 2
is_nan(a)      == a = NaN
is_infinite(a) == exp_of(a) = ExpInf
is_zero(a)     == exp_of(a) = 0          \* a == 0.0, true of -0.0 as well

\* a > b and a < b of IEEE-754: false when either side is NaN; the two zeros
\* are equal.
magnitude(a) == IF sign_of(a) = 1 THEN -exp_of(a) ELSE exp_of(a)
fgt(a, b) == ~is_nan(a) /\ ~is_nan(b) /\ magnitude(a) > magnitude(b)
flt(a, b) == ~is_nan(a) /\ ~is_nan(b) /\ magnitude(a) < magnitude(b)

\* a / b of IEEE-754
native_div(a, b) ==
    LET sign == (sign_of(a) + sign_of(b)) % 2
        exp  == exp_of(a) - exp_of(b) + ExpBias
    IN  IF is_nan(a) \/ is_nan(b) THEN NaN
        ELSE IF is_infinite(a) /\ is_infinite(b) THEN NaN
        ELSE IF is_zero(a) /\ is_zero(b) THEN NaN
        ELSE IF is_infinite(a) \/ is_zero(b) THEN Fp(sign, ExpInf)
        ELSE IF is_zero(a) \/ is_infinite(b) THEN Fp(sign, 0)
        ELSE IF exp >= ExpInf THEN Fp(sign, ExpInf)
        ELSE IF exp < 1 THEN Fp(sign, 0)
        ELSE Fp(sign, exp)

\* a % b of Rust on floats (fmod): the result has the sign of a
native_rem(a, b) ==
    IF is_nan(a) \/ is_nan(b) THEN NaN
    ELSE IF is_infinite(a) \/ is_zero(b) THEN NaN
    ELSE IF is_infinite(b) \/ is_zero(a) THEN a
    ELSE IF exp_of(a) < exp_of(b) THEN a
    ELSE Fp(sign_of(a), 0)

\* A test that took one infinite operand for two
is_double_division_returning_nan_Either(a, b) ==
    \/ is_nan(a)
    \/ is_nan(b)
    \/ is_infinite(a) \/ is_infinite(b)
    \/ (is_zero(a) /\ is_zero(b))

is_double_division_returning_nan(a, b) ==
    \/ is_nan(a)
    \/ is_nan(b)
    \/ (is_infinite(a) /\ is_infinite(b))
    \/ (is_zero(a) /\ is_zero(b))

\* The closures of Fdiv, Frem, Ddiv and Drem (`a as f64` is exact)
float_div(a, b) ==
    IF is_double_division_returning_nan(a, b) THEN NaN ELSE native_div(a, b)
float_rem(a, b) ==
    IF is_double_division_returning_nan(a, b) THEN NaN ELSE native_rem(a, b)

(***************************************************************************)
(* Integer arithmetic and shifts.  The widths are scaled down so that the  *)
(* values can be enumerated: an int (i32) has IntBits bits and a long      *)
(* (i64) twice as many, so the mask 0x1f of the code is IntBits - 1 and    *)
(* the mask 0x3f of the JVMS is LongBits - 1.                              *)
(***************************************************************************)
\* b & mask, for a mask of low one bits
BitAnd(b, mask) == b % (mask + 1)

\* 0x1f, as the code writes the mask of every shift count
Mask0x1f == IntBits - 1

\* a >> n on a signed integer, a << n and (a as unsigned) >> n
shr(a, n)        == a \div (2 ^ n)
shl(a, n, bits)  == wrap(a * (2 ^ n), bits)
\* A shift of the unsigned value that kept the sign bit
ushr_Arithmetic(a, n, bits) == a \div (2 ^ n)
ushr(a, n, bits) == wrap((a % (2 ^ bits)) \div (2 ^ n), bits)

\* `+`, `-` and `*` of Rust on i64: the exact result when it fits; when it
\* does not, a panic in a build with overflow checks (the default of a debug
\* build) and the wrapped result in a build without them.
unchecked(n, bits, overflow_checks) ==
    IF n = wrap(n, bits) THEN Ok(n)
    ELSE IF overflow_checks THEN PanicResult
         ELSE Ok(wrap(n, bits))

\* The closures passed to execute_int_math, execute_long_math and
\* execute_long_shift, a and b being val1 and val2.
closure(op, a, b, overflow_checks) ==
    CASE op = "iadd"  -> Ok(wrap(a + b, IntBits))
      [] op = "isub"  -> Ok(wrap(a - b, IntBits))
      [] op = "imul"  -> Ok(wrap(a * b, IntBits))
      [] op = "ishr"  -> Ok(shr(a, BitAnd(b, Mask0x1f)))
      [] op = "ishl"  -> Ok(shl(a, BitAnd(b, Mask0x1f), IntBits))
      [] op = "iushr" -> Ok(IF a > 0 THEN shr(a, BitAnd(b, Mask0x1f))
                            ELSE ushr(a, BitAnd(b, Mask0x1f), IntBits))
      [] op = "ladd"  -> unchecked(a + b, LongBits, overflow_checks)
      [] op = "lsub"  -> unchecked(a - b, LongBits, overflow_checks)
      [] op = "lmul"  -> unchecked(a * b, LongBits, overflow_checks)
      [] op = "lshr"  -> Ok(shr(a, BitAnd(b, Mask0x1f)))
      [] op = "lshl"  -> Ok(shl(a, BitAnd(b, Mask0x1f), LongBits))
      [] op = "lushr" -> Ok(IF a > 0 THEN shr(a, BitAnd(b, Mask0x1f))
                            ELSE ushr(a, BitAnd(b, Mask0x1f), LongBits))
      [] op \in {"fdiv", "ddiv"} -> Ok(float_div(a, b))
      [] op \in {"frem", "drem"} -> Ok(float_rem(a, b))

\* generate_execute_math! and execute_long_shift: pop val2 (an int for a
\* long shift), pop val1, evaluate the closure, push the result as a value
\* of the type of val1.
execute_arith(frame, op, tag2, tag1, overflow_checks) ==
    LET pop2 == pop_typed(frame, tag2) IN
    IF pop2.kind # "continue" THEN pop2
    ELSE LET pop1 == pop_typed(pop2.frame, tag1) IN
         IF pop1.kind # "continue" THEN pop1
         ELSE LET result == closure(op, TopValue(pop2.frame).v, TopValue(frame).v,
                                    overflow_checks)
              IN  IF result.ok
                  THEN push(pop1.frame, [tag |-> tag1, v |-> result.v])
                  ELSE IF result.err = "panic"
                       THEN Panicked(pop1.frame)
                       ELSE FromVmError(pop1.frame, result.err)

Arith(op, tag2, tag1) ==
    /\ Parses(1)
    /\ \E overflow_checks \in BOOLEAN :
          Step(op, execute_arith(Fetched(1), op, tag2, tag1, overflow_checks))
    /\ UNCHANGED heap

Iadd  == Running /\ Arith("iadd", "Int", "Int")
Isub  == Running /\ Arith("isub", "Int", "Int")
Imul  == Running /\ Arith("imul", "Int", "Int")
Ishr  == Running /\ Arith("ishr", "Int", "Int")
Ishl  == Running /\ Arith("ishl", "Int", "Int")
Iushr == Running /\ Arith("iushr", "Int", "Int")
Ladd  == Running /\ Arith("ladd", "Long", "Long")
Lsub  == Running /\ Arith("lsub", "Long", "Long")
Lmul  == Running /\ Arith("lmul", "Long", "Long")
Lshr  == Running /\ Arith("lshr", "Int", "Long")
Lshl  == Running /\ Arith("lshl", "Int", "Long")
Lushr == Running /\ Arith("lushr", "Int", "Long")

\* The Integer and the Long entries of the constant pool of Main
IntegerConstants == {-1, IntBits, LongBits - 1, MinValue(IntBits)}
LongConstants    == {-1, MaxValue(LongBits), MinValue(LongBits)}

\* ldc of an Integer entry (execute_ldc)
Ldc ==
    /\ Running /\ Parses(2)
    /\ \E value \in IntegerConstants : Step("ldc", push(Fetched(2), IntValue(value)))
    /\ UNCHANGED heap

\* ldc2_w of a Long entry (execute_ldc_long_double)
Ldc2_w ==
    /\ Running /\ Parses(3)
    /\ \E value \in LongConstants : Step("ldc2_w", push(Fetched(3), LongValue(value)))
    /\ UNCHANGED heap

InitMath ==
    /\ frames = << Vm_invoke([class |-> "Main", name |-> "math",
                              type_descriptor |-> Descriptor(<<>>, Void)],
                             None, <<>>) >>
    /\ pending = None
    /\ heap = InitialHeap
    /\ Loaded
    /\ ev = NoEvent

NextMath ==
    \/ ParseError
    \/ Iconst
    \/ Lconst
    \/ Ldc
    \/ Ldc2_w
    \/ Iadd
    \/ Isub
    \/ Imul
    \/ Ishr
    \/ Ishl
    \/ Iushr
    \/ Ladd
    \/ Lsub
    \/ Lmul
    \/ Lshr
    \/ Lshl
    \/ Lushr
    \/ Return

SpecMath == InitMath /\ [][NextMath]_vars

(***************************************************************************)
(* Properties of the integer instructions.                                 *)
(***************************************************************************)
\* The step taken last was the instruction `op` finding its two operands on
\* the stack: val2 of type tag2 on top, val1 of type tag1 under it.
Operated(ops, tag2, tag1) ==
    /\ ev.op \in ops
    /\ Len(ev.pre) >= 2
    /\ ev.pre[Len(ev.pre)].tag = tag2
    /\ ev.pre[Len(ev.pre) - 1].tag = tag1

Val1 == ev.pre[Len(ev.pre) - 1].v
Val2 == ev.pre[Len(ev.pre)].v

\* The stack after the instruction: the two operands replaced by `value`
Replaced(value) == SubSeq(ev.pre, 1, Len(ev.pre) - 2) \o <<value>>

\* The shift of the JVMS: the count is taken modulo the width of the value.
JvmsShift(op, a, count, bits) ==
    LET s == BitAnd(count, bits - 1) IN
    CASE op \in {"ishl", "lshl"}   -> shl(a, s, bits)
      [] op \in {"ishr", "lshr"}   -> shr(a, s)
      [] op \in {"iushr", "lushr"} -> ushr(a, s, bits)

\* C14: ishl, ishr and iushr shift by the count modulo the width of an int
\* (count & 0x1f) and lshl, lshr and lushr by the count modulo the width of a
\* long (count & 0x3f): the long 1 shifted left by the width of an int is
\* 2^IntBits, and shifted left by LongBits - 1 it is the least long.
C14_ShiftCountIsMaskedByTheWidth ==
    /\ Operated({"ishl", "ishr", "iushr"}, "Int", "Int") =>
          /\ ev.res = "continue"
          /\ ev.at = Replaced(IntValue(JvmsShift(ev.op, Val1, Val2, IntBits)))
    /\ Operated({"lshl", "lshr", "lushr"}, "Int", "Long") =>
          /\ ev.res = "continue"
          /\ ev.at = Replaced(LongValue(JvmsShift(ev.op, Val1, Val2, LongBits)))

\* The exact result of the instruction on the integers
Exact(op, a, b) ==
    CASE op \in {"iadd", "ladd"} -> a + b
      [] op \in {"isub", "lsub"} -> a - b
      [] op \in {"imul", "lmul"} -> a * b

\* C15: iadd, isub, imul, ladd, lsub and lmul give the exact result reduced
\* modulo 2^width into the signed range, whatever the operands; an overflow
\* is no error and does not end the interpreter.
C15_AddSubMulWrap ==
    /\ Operated({"iadd", "isub", "imul"}, "Int", "Int") =>
          /\ ev.res = "continue"
          /\ ev.at = Replaced(IntValue(wrap(Exact(ev.op, Val1, Val2), IntBits)))
    /\ Operated({"ladd", "lsub", "lmul"}, "Long", "Long") =>
          /\ ev.res = "continue"
          /\ ev.at = Replaced(LongValue(wrap(Exact(ev.op, Val1, Val2), LongBits)))

(***************************************************************************)
(* Floating point: Main.ff(float, float) and Main.dd(double, double) load  *)
(* their parameters, push constants, divide and compare.                   *)
(***************************************************************************)
\* `>` and `<` of the popped type: of i64 for a Long, of IEEE-754 for a Float
\* and a Double
gt(tag, a, b) == IF tag = "Long" THEN a > b ELSE fgt(a, b)
lt(tag, a, b) == IF tag = "Long" THEN a < b ELSE flt(a, b)

\* generate_compare!: pop val2, pop val1, push the sign of the comparison
execute_compare(frame, tag, sign_for_greater) ==
    LET pop2 == pop_typed(frame, tag) IN
    IF pop2.kind # "continue" THEN pop2
    ELSE LET pop1 == pop_typed(pop2.frame, tag) IN
         IF pop1.kind # "continue" THEN pop1
         ELSE LET val1 == TopValue(pop2.frame).v
                  val2 == TopValue(frame).v
              IN  IF gt(tag, val1, val2)
                  THEN push(pop1.frame, IntValue(sign_for_greater))
                  ELSE IF lt(tag, val1, val2)
                       THEN push(pop1.frame, IntValue(-sign_for_greater))
                       ELSE push(pop1.frame, IntValue(0))

Compare(op, tag, sign_for_greater) ==
    /\ Parses(1)
    /\ Step(op, execute_compare(Fetched(1), tag, sign_for_greater))
    /\ UNCHANGED heap

Lcmp  == Running /\ Compare("lcmp", "Long", 1)
Fcmpg == Running /\ Compare("fcmpg", "Float", -1)
Fcmpl == Running /\ Compare("fcmpl", "Float", 1)
Dcmpg == Running /\ Compare("dcmpg", "Double", -1)
Dcmpl == Running /\ Compare("dcmpl", "Double", 1)

Fdiv == Running /\ Arith("fdiv", "Float", "Float")
Frem == Running /\ Arith("frem", "Float", "Float")
Ddiv == Running /\ Arith("ddiv", "Double", "Double")
Drem == Running /\ Arith("drem", "Double", "Double")

\* fconst_0, fconst_1, fconst_2
Fconst ==
    /\ Running /\ Parses(1)
    /\ \E code \in {Fp(0, 0), Fp(0, ExpBias), Fp(0, ExpBias + 1)} :
          Step("fconst", push(Fetched(1), FloatValue(code)))
    /\ UNCHANGED heap

\* dconst_0, dconst_1
Dconst ==
    /\ Running /\ Parses(1)
    /\ \E code \in {Fp(0, 0), Fp(0, ExpBias)} :
          Step("dconst", push(Fetched(1), DoubleValue(code)))
    /\ UNCHANGED heap

Fload ==
    \E index \in 0..1 :
        /\ Running
        /\ LoadStore("fload", index,
                     execute_load(Fetched(LocalLen(index)), index, {"Float"}))

Dload ==
    \E index \in {0, 2} :
        /\ Running
        /\ LoadStore("dload", index,
                     execute_load(Fetched(LocalLen(index)), index, {"Double"}))

InitFloat ==
    /\ \E a \in FloatCodes, b \in FloatCodes :
       \E entry \in { [name |-> "ff", params |-> <<FloatValue(a), FloatValue(b)>>],
                      [name |-> "dd", params |-> <<DoubleValue(a), DoubleValue(b)>>] } :
          frames = << Vm_invoke(
                        [class |-> "Main", name |-> entry.name,
                         type_descriptor |->
                             methods("Main", entry.name).v.type_descriptor],
                        None,
                        fix_long_and_double_params(entry.params)) >>
    /\ pending = None
    /\ heap = InitialHeap
    /\ Loaded
    /\ ev = NoEvent

NextFloat ==
    \/ ParseError
    \/ Fconst
    \/ Dconst
    \/ Fload
    \/ Dload
    \/ Fdiv
    \/ Frem
    \/ Ddiv
    \/ Drem
    \/ Fcmpg
    \/ Fcmpl
    \/ Dcmpg
    \/ Dcmpl
    \/ Return

SpecFloat == InitFloat /\ [][NextFloat]_vars

(***************************************************************************)
(* Properties of the floating point instructions.                          *)
(***************************************************************************)
\* C16: with a NaN operand fcmpg and dcmpg push 1, fcmpl and dcmpl push -1.
C16_NaNComparesGreaterOrLess ==
    /\ (/\ \/ Operated({"fcmpg"}, "Float", "Float")
           \/ Operated({"dcmpg"}, "Double", "Double")
        /\ (is_nan(Val1) \/ is_nan(Val2)))
          => (ev.res = "continue" /\ ev.at = Replaced(IntValue(1)))
    /\ (/\ \/ Operated({"fcmpl"}, "Float", "Float")
           \/ Operated({"dcmpl"}, "Double", "Double")
        /\ (is_nan(Val1) \/ is_nan(Val2)))
          => (ev.res = "continue" /\ ev.at = Replaced(IntValue(-1)))

Divided ==
    \/ Operated({"fdiv", "frem"}, "Float", "Float")
    \/ Operated({"ddiv", "drem"}, "Double", "Double")

\* The operands for which the quotient and the remainder are to be NaN:
\* either is NaN, both are infinite, both are zero of either sign.
NaNOperands(a, b) ==
    \/ a = NaN \/ b = NaN
    \/ (exp_of(a) = ExpInf /\ exp_of(b) = ExpInf)
    \/ (a \in {Fp(0, 0), Fp(1, 0)} /\ b \in {Fp(0, 0), Fp(1, 0)})

\* C17: fdiv, ddiv, frem and drem push NaN when either operand is NaN, both
\* are infinite or both are zero; for every other operand pair they push what
\* the native IEEE-754 operator gives.
C17_DivisionAndRemainderNaN ==
    Divided =>
        /\ ev.res = "continue"
        /\ Len(ev.at) = Len(ev.pre) - 1
        /\ ev.at[Len(ev.at)].tag = ev.pre[Len(ev.pre)].tag
        /\ IF NaNOperands(Val1, Val2)
           THEN ev.at[Len(ev.at)].v = NaN
           ELSE ev.at[Len(ev.at)].v =
                    (IF ev.op \in {"fdiv", "ddiv"}
                     THEN native_div(Val1, Val2) ELSE native_rem(Val1, Val2))

\* An infinity was divided by a finite number, and the quotient was the
\* infinity of the native operator.
C17_Witness ==
    /\ Divided
    /\ ev.op = "ddiv"
    /\ exp_of(Val1) = ExpInf
    /\ exp_of(Val2) = ExpBias
    /\ ev.at[Len(ev.at)].v = Val1


(***************************************************************************)
(* Type validation: Main.types calls the native methods of NativeReturns,  *)
(* and invoke_method validates what each hands back against the return     *)
(* type of the method's descriptor.                                        *)
(***************************************************************************)
TypeRefs ==
    { MethodReference("Main", name, Descriptor(<<>>, NativeReturns[name]))
        : name \in DOMAIN NativeReturns }

InitTypes ==
    /\ frames = << Vm_invoke(ClassAndMethod("Main", methods("Main", "types").v),
                             None, <<>>) >>
    /\ pending = None
    /\ heap = TypesHeap
    /\ Loaded
    /\ ev = NoEvent

NextTypes ==
    \/ ParseError
    \/ Invokestatic(TypeRefs, CallDepth)
    \/ InvokeReturn
    \/ Return

SpecTypes == InitTypes /\ [][NextTypes]_vars

\* JVMS 4.10.1.2 / 5.5 (checkcast): the class or interface `class` can be
\* assigned to the class or interface `to`.
JvmsClassAssignable(class, to) ==
    to = JavaLangObject \/ is_subclass_of(class, to)

\* An array whose elements are of type `elements_type` can be assigned to
\* the type `to`: to Object, to an array of the same primitive type, or to an
\* array of a reference type its element type can be assigned to.
JvmsArrayAssignable(elements_type, to) ==
    \/ to.k = "Object" /\ to.t = JavaLangObject
    \/ /\ to.k = "Array"
       /\ IF elements_type.k = "Base"
          THEN to.of = "Base" /\ to.t = elements_type.t
          ELSE to.of = "Object" /\ JvmsClassAssignable(elements_type.t, to.t)

\* The assignment-compatibility table of the JVMS for a value of the
\* interpreter and a field descriptor.
JvmsAssignable(value, to, objects) ==
    CASE value.tag = "Uninitialized" -> FALSE
      [] value.tag = "Int" ->
            to.k = "Base" /\ to.t \in {"Int", "Byte", "Char", "Short", "Boolean"}
      [] value.tag \in {"Long", "Float", "Double"} ->
            to.k = "Base" /\ to.t = value.tag
      [] value.tag = "Null" -> to.k \in {"Object", "Array"}
      [] value.tag = "Object" ->
            IF objects[value.v].kind = "Array"
            THEN JvmsArrayAssignable(objects[value.v].elements_type, to)
            ELSE to.k = "Object" /\ JvmsClassAssignable(objects[value.v].class, to.t)

\* A native method has handed a value back to invoke_method, which is about
\* to validate it against the return type and has room to push it.
ValueToValidate ==
    /\ frames # <<>>
    /\ pending.some
    /\ pending.v.kind = "return"
    /\ pending.v.val.some
    /\ Top.invoking
    /\ Top.method_return_type.some
    /\ ~StackFull(Top)

\* C18: validate_type accepts a value for a descriptor if and only if the
\* assignment-compatibility rules of the JVMS allow it: an Int for int, byte,
\* char, short and boolean only; a Long, Float or Double for its own
\* descriptor only; Null for every Object and Array descriptor and for no
\* primitive one; Uninitialized for none; an instance or an array exactly
\* when its class or array type is assignable to the descriptor's type.
C18_ValidateTypeIsAssignmentCompatibility ==
    [][ ValueToValidate =>
            ( ev'.res = "continue"
              <=> JvmsAssignable(pending.v.val.v, Top.method_return_type.v, heap) )
      ]_vars


(***************************************************************************)
(* The operand stack instructions.  ValueStack keeps one slot for each     *)
(* value: a Long or a Double (category 2) is one slot, like a value of      *)
(* category 1.  Each instruction has the forms of its JVMS table, told      *)
(* apart by the categories of the topmost slots; a stack of no form of the  *)
(* instruction, or one too full for the copies, is refused.                 *)
(***************************************************************************)
category(value) == IF value.tag \in {"Long", "Double"} THEN 2 ELSE 1

\* The i-th slot from the top of the stack of the frame
Slot(frame, i) == frame.stack[Len(frame.stack) + 1 - i]

\* The topmost slots have the categories `categories`, top first.
HasForm(frame, categories) ==
    /\ Len(frame.stack) >= Len(categories)
    /\ \A i \in 1..Len(categories) : category(Slot(frame, i)) = categories[i]

\* The topmost n slots are replaced by `slots`.
Restacked(frame, n, slots) ==
    LET stack == SubSeq(frame.stack, 1, Len(frame.stack) - n) \o slots IN
    IF Len(stack) > method_of(frame.class_and_method).max_stack
    THEN InternalError(frame, "ValidationException")
    ELSE ContinueMethodExecution([frame EXCEPT !.stack = stack])

NoForm(frame) == InternalError(frame, "ValidationException")

dup(frame) ==
    LET v1 == Slot(frame, 1) IN
    IF HasForm(frame, <<1>>) THEN Restacked(frame, 1, <<v1, v1>>)
    ELSE NoForm(frame)

dup_x1(frame) ==
    LET v1 == Slot(frame, 1)
        v2 == Slot(frame, 2)
    IN
    IF HasForm(frame, <<1, 1>>) THEN Restacked(frame, 2, <<v1, v2, v1>>)
    ELSE NoForm(frame)

dup_x2(frame) ==
    LET v1 == Slot(frame, 1)
        v2 == Slot(frame, 2)
        v3 == Slot(frame, 3)
    IN
    CASE HasForm(frame, <<1, 1, 1>>) -> Restacked(frame, 3, <<v1, v3, v2, v1>>)
      [] HasForm(frame, <<1, 2>>)    -> Restacked(frame, 2, <<v1, v2, v1>>)
      [] OTHER                       -> NoForm(frame)

dup2(frame) ==
    LET v1 == Slot(frame, 1)
        v2 == Slot(frame, 2)
    IN
    CASE HasForm(frame, <<1, 1>>) -> Restacked(frame, 2, <<v2, v1, v2, v1>>)
      [] HasForm(frame, <<2>>)    -> Restacked(frame, 1, <<v1, v1>>)
      [] OTHER                    -> NoForm(frame)

dup2_x1(frame) ==
    LET v1 == Slot(frame, 1)
        v2 == Slot(frame, 2)
        v3 == Slot(frame, 3)
    IN
    CASE HasForm(frame, <<1, 1, 1>>) -> Restacked(frame, 3, <<v2, v1, v3, v2, v1>>)
      [] HasForm(frame, <<2, 1>>)    -> Restacked(frame, 2, <<v1, v2, v1>>)
      [] OTHER                       -> NoForm(frame)

dup2_x2(frame) ==
    LET v1 == Slot(frame, 1)
        v2 == Slot(frame, 2)
        v3 == Slot(frame, 3)
        v4 == Slot(frame, 4)
    IN
    CASE HasForm(frame, <<1, 1, 1, 1>>) ->
            Restacked(frame, 4, <<v2, v1, v4, v3, v2, v1>>)
      [] HasForm(frame, <<2, 1, 1>>) -> Restacked(frame, 3, <<v1, v3, v2, v1>>)
      [] HasForm(frame, <<1, 1, 2>>) -> Restacked(frame, 3, <<v2, v1, v3, v2, v1>>)
      [] HasForm(frame, <<2, 2>>)    -> Restacked(frame, 2, <<v1, v2, v1>>)
      [] OTHER                       -> NoForm(frame)

pop(frame) ==
    IF HasForm(frame, <<1>>) THEN Restacked(frame, 1, <<>>)
    ELSE NoForm(frame)

pop2(frame) ==
    CASE HasForm(frame, <<1, 1>>) -> Restacked(frame, 2, <<>>)
      [] HasForm(frame, <<2>>)    -> Restacked(frame, 1, <<>>)
      [] OTHER                    -> NoForm(frame)

swap(frame) ==
    LET v1 == Slot(frame, 1)
        v2 == Slot(frame, 2)
    IN
    IF HasForm(frame, <<1, 1>>) THEN Restacked(frame, 2, <<v1, v2>>)
    ELSE NoForm(frame)

\* A dispatch that took dup_x1 for dup_x2 and dup_x2 for dup_x1
execute_stack_instruction_Crossed(frame, op) ==
    CASE op = "dup"     -> dup(frame)
      [] op = "dup_x1"  -> dup_x2(frame)
      [] op = "dup_x2"  -> dup_x1(frame)
      [] op = "dup2"    -> dup2(frame)
      [] op = "dup2_x1" -> dup2_x1(frame)
      [] op = "dup2_x2" -> dup2_x2(frame)
      [] op = "pop"     -> pop(frame)
      [] op = "pop2"    -> pop2(frame)
      [] op = "swap"    -> swap(frame)

\* Instruction::Dup .. Instruction::Swap of execute_instruction
execute_stack_instruction(frame, op) ==
    CASE op = "dup"     -> dup(frame)
      [] op = "dup_x1"  -> dup_x1(frame)
      [] op = "dup_x2"  -> dup_x2(frame)
      [] op = "dup2"    -> dup2(frame)
      [] op = "dup2_x1" -> dup2_x1(frame)
      [] op = "dup2_x2" -> dup2_x2(frame)
      [] op = "pop"     -> pop(frame)
      [] op = "pop2"    -> pop2(frame)
      [] op = "swap"    -> swap(frame)

StackInstruction(op) ==
    /\ Parses(1)
    /\ Step(op, execute_stack_instruction(Fetched(1), op))
    /\ UNCHANGED heap

Dup     == Running /\ StackInstruction("dup")
Dup_x1  == Running /\ StackInstruction("dup_x1")
Dup_x2  == Running /\ StackInstruction("dup_x2")
Dup2    == Running /\ StackInstruction("dup2")
Dup2_x1 == Running /\ StackInstruction("dup2_x1")
Dup2_x2 == Running /\ StackInstruction("dup2_x2")
Pop     == Running /\ StackInstruction("pop")
Pop2    == Running /\ StackInstruction("pop2")
Swap    == Running /\ StackInstruction("swap")

InitShuffle ==
    /\ frames = << Vm_invoke(ClassAndMethod("Main", methods("Main", "shuffle").v),
                             None, <<>>) >>
    /\ pending = None
    /\ heap = InitialHeap
    /\ Loaded
    /\ ev = NoEvent

NextShuffle ==
    \/ ParseError
    \/ Aconst_null
    \/ Iconst
    \/ Lconst
    \/ Dup
    \/ Dup_x1
    \/ Dup_x2
    \/ Dup2
    \/ Dup2_x1
    \/ Dup2_x2
    \/ Pop
    \/ Pop2
    \/ Swap
    \/ Return

SpecShuffle == InitShuffle /\ [][NextShuffle]_vars


(***************************************************************************)
(* Properties of the operand stack instructions.  The JVMS states them on  *)
(* a stack of words, a value of category 2 taking two words: an            *)
(* instruction copies or drops the topmost words and never splits a value. *)
(***************************************************************************)
StackOps ==
    {"dup", "dup_x1", "dup_x2", "dup2", "dup2_x1", "dup2_x2", "pop", "pop2", "swap"}

WordsOf(value) ==
    IF category(value) = 2
    THEN << [value |-> value, half |-> 1], [value |-> value, half |-> 2] >>
    ELSE << [value |-> value, half |-> 0] >>

RECURSIVE Words(_)
Words(stack) ==
    IF stack = <<>> THEN <<>>
    ELSE Words(SubSeq(stack, 1, Len(stack) - 1)) \o WordsOf(stack[Len(stack)])

\* How many of the topmost words a dup instruction copies, and how many
\* words below the top it puts the copy.
Copied(op)   == IF op \in {"dup", "dup_x1", "dup_x2"} THEN 1 ELSE 2
Inserted(op) ==
    CASE op = "dup"                 -> 1
      [] op \in {"dup_x1", "dup2"}  -> 2
      [] op \in {"dup_x2", "dup2_x1"} -> 3
      [] op = "dup2_x2"             -> 4

JvmsWords(op, words) ==
    LET len == Len(words) IN
    CASE op = "pop"  -> SubSeq(words, 1, len - 1)
      [] op = "pop2" -> SubSeq(words, 1, len - 2)
      [] op = "swap" -> SubSeq(words, 1, len - 2) \o << words[len], words[len - 1] >>
      [] OTHER ->
            SubSeq(words, 1, len - Inserted(op))
            \o SubSeq(words, len - Copied(op) + 1, len)
            \o SubSeq(words, len - Inserted(op) + 1, len)

\* The topmost k words are whole values.
Whole(words, k) ==
    /\ k <= Len(words)
    /\ words[Len(words) - k + 1].half \in {0, 1}

JvmsForm(op, words) ==
    CASE op = "pop"  -> Whole(words, 1)
      [] op = "pop2" -> Whole(words, 2)
      [] op = "swap" -> Whole(words, 1) /\ Whole(words, 2)
      [] OTHER       -> Whole(words, Copied(op)) /\ Whole(words, Inserted(op))

ValuesIn(words) == Cardinality({ i \in 1..Len(words) : words[i].half \in {0, 1} })

\* C19: dup_x1 turns a stack [..., s, t] into [..., t, s, t], leaving what
\* is below unchanged and growing the stack by one; dup, dup_x2, dup2,
\* dup2_x1, dup2_x2, pop, pop2 and swap do to the stack what their JVMS
\* tables say, a Long or a Double being one value of category 2 in one slot:
\* on every stack of a form of the instruction with room for the copies the
\* instruction succeeds, and whenever it succeeds the stack is the one of
\* the table.
C19_StackInstructionsFollowTheJvmsTables ==
    ev.op \in StackOps =>
        LET words == Words(ev.pre)
            len   == Len(ev.pre)
        IN
        /\ ( /\ JvmsForm(ev.op, words)
             /\ ValuesIn(JvmsWords(ev.op, words))
                    <= methods("Main", ev.method).v.max_stack )
              => ev.res = "continue"
        /\ ev.res = "continue" =>
              /\ JvmsForm(ev.op, words)
              /\ Words(ev.at) = JvmsWords(ev.op, words)
        /\ (ev.op = "dup_x1" /\ ev.res = "continue") =>
              /\ len >= 2
              /\ ev.at = SubSeq(ev.pre, 1, len - 2)
                            \o << ev.pre[len], ev.pre[len - 1], ev.pre[len] >>
              /\ Len(ev.at) = len + 1

\* dup_x1 has run on a stack [long, s, t] with s and t different values.
C19_Witness ==
    /\ ev.op = "dup_x1"
    /\ ev.res = "continue"
    /\ Len(ev.pre) = 3
    /\ ev.pre[1].tag = "Long"
    /\ ev.pre[2] # ev.pre[3]
    /\ Top.stack = << ev.pre[1], ev.pre[3], ev.pre[2], ev.pre[3] >>


(***************************************************************************)
(* The heap and the garbage collector.  The heap has HeapSize places for   *)
(* objects; a place holds an object or is free.  The static instance of    *)
(* Main, which holds its static field s, is allocated before Main.gc runs. *)
(* A collection marks what the roots reach and frees the rest; it runs     *)
(* when an allocation finds the threshold of live objects crossed, which   *)
(* may be before any instruction: the threshold is not modelled.           *)
(***************************************************************************)
HeapSize == 5

Free == [kind |-> "Free", class |-> "",
         elements_type |-> [k |-> "", t |-> "", of |-> ""], fields |-> <<>>]

\* Vm::get_static_instance: the static-instance table, by class
get_static_instance(class) ==
    CASE class = "Main" -> Some(1)
      [] class = "S"    -> Some(4)
      [] OTHER          -> None

\* The static instance of Main, an array of A with an A in it, the static
\* instance of S, and room.
GcHeap ==
    [h \in 1..HeapSize |->
        CASE h = 1 -> Instance("Main", <<Null>>)
          [] h = 2 -> Array(ObjectType("A"),
                            [i \in 1..ArrayLength |->
                                IF i = 1 THEN ObjectValue(3) ELSE Null])
          [] h = 3 -> Instance("A", <<IntValue(0)>>)
          [] h = 4 -> Instance("S", <<Null>>)
          [] OTHER -> Free]

Range(values) == { values[i] : i \in 1..Len(values) }

\* Roots that left out the locals of the frame
gc_roots_StackOnly(frame) ==
    { value.v : value \in { v \in Range(frame.stack) : v.tag = "Object" } }

\* CallFrame::gc_roots: the objects the stack and the locals of the frame hold
gc_roots(frame) ==
    { value.v : value \in { v \in Range(frame.stack) : v.tag = "Object" } }
    \cup { value.v : value \in { v \in Range(frame.locals) : v.tag = "Object" } }

\* The roots of a collection: those of every frame of the call stack, and
\* the static instances.
roots(call_stack) ==
    UNION { gc_roots(call_stack[i]) : i \in 1..Len(call_stack) }
    \cup { get_static_instance(class).v :
              class \in { c \in ClassNames : get_static_instance(c).some } }

\* The objects the fields of an instance or the elements of an array hold
references(object) ==
    { value.v : value \in { v \in Range(object.fields) : v.tag = "Object" } }

\* Mark: from the marked objects into their fields and elements, until no
\* object is added.
RECURSIVE mark(_, _)
mark(marked, objects) ==
    LET found == UNION { references(objects[h]) : h \in marked }
    IN  IF found \subseteq marked THEN marked
        ELSE mark(marked \cup found, objects)

\* Sweep: every unmarked object is dropped.
sweep(marked, objects) ==
    [h \in DOMAIN objects |-> IF h \in marked THEN objects[h] ELSE Free]

run_garbage_collection(call_stack, objects) ==
    sweep(mark(roots(call_stack), objects), objects)

\* Vm::new_object: the object is put in the first free place.
new_object(class, objects) ==
    LET free == { h \in DOMAIN objects : objects[h].kind = "Free" } IN
    IF free = {} THEN None
    ELSE Some(CHOOSE h \in free : \A other \in free : h <= other)

\* Instruction::New
execute_new(frame, class, objects) ==
    LET new_object_class == get_or_resolve_class(class)
        place == new_object(class, objects)
    IN
    IF ~new_object_class.ok
    THEN [result |-> InternalError(frame, new_object_class.err), objects |-> objects]
    ELSE [result |-> push(frame, ObjectValue(place.v)),
          objects |-> [objects EXCEPT ![place.v] = Instance(class, <<IntValue(0)>>)]]

execute_putstatic(frame, field_reference, objects) ==
    LET object_class == get_or_resolve_class(field_reference.class_name) IN
    IF ~object_class.ok
    THEN [result |-> InternalError(frame, object_class.err), objects |-> objects]
    ELSE
    LET field == find_field(object_class.class, field_reference.field_name) IN
    IF ~field.some
    THEN [result |-> FromVmError(frame, "FieldNotFoundException"), objects |-> objects]
    ELSE IF frame.stack = <<>>
    THEN [result |-> FromVmError(frame, "ValidationException"), objects |-> objects]
    ELSE
    LET value  == TopValue(frame)
        popped == Popped(frame)
        object == get_static_instance(frame.class_and_method.class)
    IN
    IF ~validate_type(field.v.type_descriptor, value, objects)
    THEN [result |-> FromVmError(popped, "ValidationException"), objects |-> objects]
    ELSE IF object.some /\ objects[object.v].kind = "Object"
    THEN [result |-> ContinueMethodExecution(popped),
          objects |-> [objects EXCEPT ![object.v].fields[field.v.index] = value]]
    ELSE [result |-> InternalError(popped, "ValidationException"), objects |-> objects]

New ==
    /\ Running /\ Parses(3)
    /\ \E class \in {"A", "Missing"} :
          /\ new_object(class, heap).some
          /\ LET done == execute_new(Fetched(3), class, heap) IN
             StepOn("new", Operand(class, "", "class"), done.result)
             /\ heap' = done.objects

Putstatic ==
    /\ Running /\ Parses(3)
    /\ \E field_name \in {"s", "t"} :
          LET done == execute_putstatic(Fetched(3), FieldReference("Main", field_name),
                                        heap)
          IN  StepOn("putstatic", Operand("Main", field_name, "static"), done.result)
              /\ heap' = done.objects

\* A collection, while the frame on top of the call stack is at an instruction
Collect ==
    /\ Running
    /\ heap' = run_garbage_collection(frames, heap)
    /\ ev' = Event("gc", NoOperand, ContinueMethodExecution(Top), [search |-> NoSearch])
    /\ UNCHANGED <<frames, pending, classes, class_path>>

GcRefs ==
    { MethodReference("Main", "gc", Descriptor(<<ArrayType(ObjectType("A"))>>, Void)) }

InitGc ==
    /\ frames = << Vm_invoke(ClassAndMethod("Main", methods("Main", "gc").v),
                             None, <<ObjectValue(2)>>) >>
    /\ pending = None
    /\ heap = GcHeap
    /\ Loaded
    /\ ev = NoEvent

NextGc ==
    \/ ParseError
    \/ Aconst_null
    \/ Aload
    \/ Astore
    \/ Dup
    \/ Pop
    \/ New
    \/ Putstatic
    \/ Invokestatic(GcRefs, CallDepth)
    \/ InvokeReturn
    \/ Return
    \/ Collect

SpecGc == InitGc /\ [][NextGc]_vars


(***************************************************************************)
(* Properties of the garbage collector.                                    *)
(***************************************************************************)
Allocated(h) == heap[h].kind # "Free"

\* Some slot of the operand stack or of the locals of the frame is the
\* object h.
HeldBy(frame, h) ==
    \/ \E i \in 1..Len(frame.stack)  : frame.stack[i] = ObjectValue(h)
    \/ \E i \in 1..Len(frame.locals) : frame.locals[i] = ObjectValue(h)

\* Some field of the object g, or some element of the array g, is the object h.
RefersTo(g, h) ==
    \E i \in 1..Len(heap[g].fields) : heap[g].fields[i] = ObjectValue(h)

\* The objects that the objects of `reached` lead to, themselves included
RECURSIVE ReachableFrom(_)
ReachableFrom(reached) ==
    LET further == { h \in DOMAIN heap : \E g \in reached : RefersTo(g, h) } IN
    IF further \subseteq reached THEN reached
    ELSE ReachableFrom(reached \cup further)

Reachable ==
    ReachableFrom({ h \in DOMAIN heap :
                      \/ \E i \in 1..Len(frames) : HeldBy(frames[i], h)
                      \/ \E class \in ClassNames :
                            get_static_instance(class) = Some(h) })

\* C20: after a collection, whatever allocations, stores and invocations came
\* before it, every object reachable from an Object value in the operand
\* stack or the locals of any frame of the call stack, not only the topmost
\* one, or from the static-instance table is still allocated, and every
\* other object has been freed.
C20_CollectionKeepsExactlyTheReachable ==
    ev.op = "gc" =>
        \A h \in DOMAIN heap : Allocated(h) <=> h \in Reachable

\* A collection ran with two frames on the call stack, the topmost holding
\* no object: the array and its element, which only the frame below leads
\* to, are still allocated, and so is an object allocated since, which the
\* frames no longer hold.
C20_Witness ==
    /\ ev.op = "gc"
    /\ Len(frames) = 2
    /\ \A h \in DOMAIN heap : ~HeldBy(Top, h)
    /\ HeldBy(frames[1], 2)
    /\ Allocated(2) /\ Allocated(3)
    /\ \E h \in DOMAIN heap : Allocated(h) /\ h \notin {1, 2, 3}
    /\ \E h \in DOMAIN heap : ~Allocated(h)


(***************************************************************************)
(* Linking (class.rs).  The class manager parses a class file and links it *)
(* with Class::new against the classes installed so far; a linked class is *)
(* installed under the next class id.  Orphan, Lost and Astray name        *)
(* classes that no class file defines.                                     *)
(***************************************************************************)
\* ClassFile: the name, the superclass name if any, the interface names
ClassFile(name, super, interface_names) ==
    [name |-> name, superclass |-> super, interfaces |-> interface_names]

ClassFiles ==
    { ClassFile(JavaLangObject, NoClass, <<>>),
      ClassFile("I", Some(JavaLangObject), <<>>),
      ClassFile("J", Some(JavaLangObject), <<>>),
      ClassFile("A", Some(JavaLangObject), <<"I">>),
      ClassFile("B", Some("A"), <<"I", "J">>),
      ClassFile("E", Some(JavaLangObject), <<>>),
      ClassFile("Orphan", Some("Missing"), <<"I">>),
      ClassFile("Lost", Some(JavaLangObject), <<"I", "Missing", "Absent">>),
      ClassFile("Astray", Some("Missing"), <<"Absent">>) }

\* ClassResolver::find_class: the installed class of that name
find_class(installed, name) ==
    IF \E id \in DOMAIN installed : installed[id].name = name
    THEN Some(name)
    ELSE NoClass

\* The interfaces are looked up in the order of the class file, up to the
\* first that is not found.
not_found(installed, names) ==
    { i \in DOMAIN names : ~find_class(installed, names[i]).some }

first_not_found(installed, names) ==
    names[CHOOSE i \in not_found(installed, names) :
              \A j \in not_found(installed, names) : i <= j]

ClassNotFoundException(name) ==
    [ok |-> FALSE, err |-> "ClassNotFoundException", name |-> name]

Class_new_SuperclassOnly(class_file, installed) ==
    IF /\ class_file.superclass.some
       /\ ~find_class(installed, class_file.superclass.v).some
    THEN ClassNotFoundException(class_file.superclass.v)
    ELSE [ok |-> TRUE,
          class |-> Class(class_file.name, class_file.superclass,
                          class_file.interfaces)]

\* Class::new
Class_new(class_file, installed) ==
    IF /\ class_file.superclass.some
       /\ ~find_class(installed, class_file.superclass.v).some
    THEN ClassNotFoundException(class_file.superclass.v)
    ELSE IF not_found(installed, class_file.interfaces) # {}
    THEN ClassNotFoundException(first_not_found(installed, class_file.interfaces))
    ELSE [ok |-> TRUE,
          class |-> Class(class_file.name, class_file.superclass,
                          class_file.interfaces)]

\* The class id of an installed class is its place in the table.
class_id(installed, name) ==
    CHOOSE id \in DOMAIN installed : installed[id].name = name

\* The class manager installs a linked class under the next class id.
install(installed, class) == Append(installed, class)

\* The class manager links a class file of a class that is not installed.
Link ==
    \E class_file \in ClassFiles :
        /\ ~find_class(classes, class_file.name).some
        /\ \E linked \in {Class_new(class_file, classes)} :
              /\ classes' = IF linked.ok THEN install(classes, linked.class)
                                         ELSE classes
              /\ ev' = [op |-> "link", class_file |-> class_file,
                        installed |-> classes, linked |-> linked]
        /\ UNCHANGED <<frames, pending, heap, class_path>>

InitLink ==
    /\ frames = <<>>
    /\ pending = None
    /\ heap = <<>>
    /\ classes = <<>>
    /\ class_path = <<>>
    /\ ev = NoEvent

NextLink == Link

SpecLink == InitLink /\ [][NextLink]_vars

\* The classes a class file names: its superclass and its interfaces
Named(class_file) ==
    { class_file.interfaces[i] : i \in DOMAIN class_file.interfaces }
        \cup (IF class_file.superclass.some THEN {class_file.superclass.v} ELSE {})

Installed(installed) == { installed[id].name : id \in DOMAIN installed }

\* C21: a class is installed only when its superclass and its interfaces are
\* installed already, so the class id of a class is greater than the class id
\* of its superclass and of each of its interfaces; when a class file names a
\* class that is not installed, linking fails with a ClassNotFoundException
\* that names such a class, and no class is installed.
C21_LinkedAfterSuperclassAndInterfaces ==
    /\ \A id \in DOMAIN classes :
          \A name \in Named(classes[id]) :
              /\ name \in Installed(classes)
              /\ class_id(classes, name) < id
    /\ \A id, other \in DOMAIN classes :
          classes[id].name = classes[other].name => id = other
    /\ ev.op = "link" =>
          IF Named(ev.class_file) \subseteq Installed(ev.installed)
          THEN /\ ev.linked.ok
               /\ classes = Append(ev.installed, ev.linked.class)
               /\ ev.linked.class.name = ev.class_file.name
          ELSE /\ ~ev.linked.ok
               /\ ev.linked.err = "ClassNotFoundException"
               /\ ev.linked.name \in Named(ev.class_file) \ Installed(ev.installed)
               /\ classes = ev.installed

\* B is installed, and a class file that names a missing class is refused.
C21_Witness ==
    /\ ev.op = "link"
    /\ ~ev.linked.ok
    /\ "B" \in Installed(classes)


(***************************************************************************)
(* The class path (class_path.rs and its entries).  A string is the        *)
(* sequence of its characters; the one-character strings are the           *)
(* characters, and "class" stands for the five characters of the           *)
(* extension.  A byte is a number in 0..255.                               *)
(***************************************************************************)
MaxEntries == 3     \* entries of the class path

\* The first four bytes of a class file: 0xCAFEBABE
Magic == <<202, 254, 186, 190>>

\* A class file: the magic and what follows it
ClassBytes(rest) == Magic \o <<rest>>

\* A deflate stream of one final stored block: the header byte, LEN and its
\* complement NLEN, little endian, and the bytes themselves.
StoredBlock(bytes) ==
    << 1, Len(bytes) % 256, Len(bytes) \div 256,
       255 - (Len(bytes) % 256), 255 - (Len(bytes) \div 256) >> \o bytes

\* A local file of an archive as the archive parser yields it: its name, its
\* compression method, its data as the archive holds it, whether the name is
\* UTF-8 and whether the data can be read from the archive.
LocalFile(file_name, compression_method, data) ==
    [file_name |-> file_name, utf8 |-> TRUE,
     compression_method |-> compression_method, data |-> data, intact |-> TRUE]

\* What the I/O facade finds at a path
Directory     == [exists |-> TRUE, is_dir |-> TRUE, bytes |-> <<>>, zip |-> <<>>]
File(bytes)   == [exists |-> TRUE, is_dir |-> FALSE, bytes |-> bytes, zip |-> <<>>]
Archive(zip)  == [exists |-> TRUE, is_dir |-> FALSE, bytes |-> <<80, 75>>, zip |-> zip]
Nothing       == [exists |-> FALSE, is_dir |-> FALSE, bytes |-> <<>>, zip |-> <<>>]

\* The files of the model.  j, k and u are archives, u with a member that is
\* neither stored nor deflated; t is a text file, which the archive parser
\* cannot read a local file from; d and e are directories, d/c.class is a
\* directory too.
Fs(path) ==
    CASE path = <<"j">> ->
            Archive(<< LocalFile(<<"a", ".", "class">>, 0, ClassBytes(1)),
                       LocalFile(<<"b", ".", "class">>, 8, StoredBlock(ClassBytes(2))),
                       LocalFile(<<"a", ".", "b", ".", "class">>, 0, ClassBytes(3)) >>)
      [] path = <<"k">> ->
            Archive(<< LocalFile(<<"a", ".", "class">>, 8, StoredBlock(ClassBytes(4))),
                       LocalFile(<<"c", ".", "class">>, 0, ClassBytes(5)) >>)
      [] path = <<"u">> ->
            Archive(<< LocalFile(<<"a", ".", "class">>, 0, ClassBytes(6)),
                       LocalFile(<<"c", ".", "class">>, 12, <<7>>) >>)
      [] path = <<"t">> ->
            [ File(<<35, 33>>) EXCEPT
                !.zip = << [LocalFile(<<>>, 0, <<>>) EXCEPT !.intact = FALSE] >> ]
      [] path \in { <<"d">>, <<"e">>, <<"d", "/", "a">>,
                    <<"d", "/", "c", ".", "class">> } -> Directory
      [] path = <<"d", "/", "a", ".", "class">>           -> File(ClassBytes(8))
      [] path = <<"d", "/", "a", ".", "b", ".", "class">> -> File(ClassBytes(9))
      [] path = <<"d", "/", "a", "/", "b", ".", "class">> -> File(ClassBytes(10))
      [] path = <<"e", "/", "a", ".", "class">>           -> File(ClassBytes(11))
      [] path = <<"e", "/", "b", ".", "class">>           -> File(ClassBytes(12))
      [] path = <<"/", "a", ".", "class">>                -> File(ClassBytes(13))
      [] OTHER -> Nothing

\* JvmIo::exists, JvmIo::is_dir
exists(path) == Fs(path).exists
is_dir(path) == Fs(path).is_dir

\* JvmIo::read: the bytes of a file, or an I/O error
read(path) ==
    IF Fs(path).exists /\ ~Fs(path).is_dir
    THEN [ok |-> TRUE, bytes |-> Fs(path).bytes]
    ELSE [ok |-> FALSE, err |-> "IoError"]

\* PathBuf::push: an absolute path replaces the path, a relative one follows
\* it after a separator.
PathBuf_push(self, path) ==
    IF path # <<>> /\ path[1] = "/"
    THEN path
    ELSE IF self # <<>> /\ self[Len(self)] # "/"
    THEN self \o <<"/">> \o path
    ELSE self \o path

\* The place of the last c in a string, 0 when it has none
last_index_of(string, c) ==
    IF \E i \in DOMAIN string : string[i] = c
    THEN CHOOSE i \in DOMAIN string :
            string[i] = c /\ \A j \in DOMAIN string : string[j] = c => j <= i
    ELSE 0

\* Path::file_name, of a path whose last component is a name that is followed
\* by no separator
file_name(path) == SubSeq(path, last_index_of(path, "/") + 1, Len(path))

\* Path::file_stem: the file name up to its last '.', the whole name when
\* it has no '.' or only begins with one.
file_stem(path) ==
    IF last_index_of(file_name(path), ".") <= 1
    THEN file_name(path)
    ELSE SubSeq(file_name(path), 1, last_index_of(file_name(path), ".") - 1)

\* PathBuf::set_extension: the path is cut right after its file stem, and
\* '.' and the extension follow.
set_extension(path, extension) ==
    SubSeq(path, 1, last_index_of(path, "/") + Len(file_stem(path)))
        \o <<".">> \o extension


\* ZipFile: the bytes of a member, deflated or not
ZipFile(kind, buf) == [kind |-> kind, buf |-> buf]

\* Vec::with_capacity: a vector that holds no element yet, whatever its capacity
with_capacity(capacity) == <<>>

\* LocalFileOps::read_exact: the bytes of the local file that the slice has
\* room for
read_exact(file, slice) ==
    IF file.intact
    THEN [ok |-> TRUE, buf |-> SubSeq(file.data, 1, Len(slice))]
    ELSE [ok |-> FALSE, buf |-> <<>>]

\* HashMap::insert
insert(map, key, value) ==
    [k \in DOMAIN map \cup {key} |-> IF k = key THEN value ELSE map[k]]

JarFileError(err) == [ok |-> FALSE, err |-> err]

\* The loop of JarFileClassPathEntry::new over the local files of the archive
RECURSIVE index_archive(_, _, _)
index_archive(path, zip, filesystem) ==
    IF zip = <<>>
    THEN [ok |-> TRUE,
          entry |-> [kind |-> "jar", file_name |-> path, filesystem |-> filesystem]]
    ELSE LET file == Head(zip)
             buf  == read_exact(file, with_capacity(Len(file.data)))
         IN  IF ~file.utf8
             THEN JarFileError("InvalidFileName")
             ELSE IF ~buf.ok
             THEN JarFileError("InvalidJar")
             ELSE IF file.compression_method \notin {0, 8}
             THEN JarFileError("UnsupportedCompressMethod")
             ELSE index_archive(path, Tail(zip),
                      insert(filesystem, file.file_name,
                             ZipFile(IF file.compression_method = 0
                                     THEN "Uncompressed" ELSE "Deflated",
                                     buf.buf)))

JarFileClassPathEntry_new_Unchecked(path) ==
    index_archive(path, Fs(path).zip, <<>>)

\* JarFileClassPathEntry::new
JarFileClassPathEntry_new(path) ==
    IF ~exists(path)
    THEN JarFileError("NotFound")
    ELSE IF ~read(path).ok
    THEN JarFileError("ReadingError")
    ELSE index_archive(path, Fs(path).zip, <<>>)

\* FileSystemClassPathEntry::new
FileSystemClassPathEntry_new(path) ==
    IF ~exists(PathBuf_push(<<>>, path)) \/ ~is_dir(PathBuf_push(<<>>, path))
    THEN [ok |-> FALSE, err |-> "InvalidDirectoryError"]
    ELSE [ok |-> TRUE,
          entry |-> [kind |-> "dir", base_directory |-> PathBuf_push(<<>>, path)]]

\* miniz_oxide's decompress_to_vec, for the streams of the model: one final
\* stored block is inflated to its bytes, and a stream that is cut short or
\* whose LEN and NLEN disagree is an error.
decompress_to_vec(input) ==
    IF /\ Len(input) >= 5
       /\ input[1] = 1
       /\ input[4] = 255 - input[2]
       /\ input[5] = 255 - input[3]
       /\ Len(input) = 5 + input[2] + 256 * input[3]
    THEN [ok |-> TRUE, bytes |-> SubSeq(input, 6, Len(input))]
    ELSE [ok |-> FALSE, bytes |-> <<>>]

\* Result<Option<Bytes>, ClassLoadingError>
SomeBytes(bytes)       == [kind |-> "some", bytes |-> bytes, err |-> ""]
NoBytes                == [kind |-> "none", bytes |-> <<>>, err |-> ""]
ClassLoadingError(err) == [kind |-> "err", bytes |-> <<>>, err |-> err]

\* JarFileClassPathEntry::resolve: the result, the entry afterwards, and the
\* files read (none: the archive was read when the entry was made)
JarFileClassPathEntry_resolve_Cleared(entry, class_name) ==
    LET class_file_name == class_name \o <<".", "class">>
    IN  IF class_file_name \notin DOMAIN entry.filesystem
        THEN [res |-> NoBytes, entry |-> entry, read |-> {}]
        ELSE LET zip_file == entry.filesystem[class_file_name]
                 buf == IF zip_file.kind = "Deflated"
                        THEN decompress_to_vec(zip_file.buf)
                        ELSE [ok |-> TRUE, bytes |-> zip_file.buf]
             IN  [res |-> IF buf.ok THEN SomeBytes(buf.bytes)
                                    ELSE ClassLoadingError("DecompressError"),
                  entry |-> [entry EXCEPT !.filesystem[class_file_name] =
                                 ZipFile("Uncompressed", buf.bytes)],
                  read |-> {}]

JarFileClassPathEntry_resolve(entry, class_name) ==
    LET class_file_name == class_name \o <<".", "class">>
    IN  IF class_file_name \notin DOMAIN entry.filesystem
        THEN [res |-> NoBytes, entry |-> entry, read |-> {}]
        ELSE LET zip_file == entry.filesystem[class_file_name]
                 buf == IF zip_file.kind = "Deflated"
                        THEN decompress_to_vec(zip_file.buf)
                        ELSE [ok |-> TRUE, bytes |-> zip_file.buf]
             IN  IF ~buf.ok
                 THEN [res |-> ClassLoadingError("DecompressError"),
                       entry |-> entry, read |-> {}]
                 ELSE [res |-> SomeBytes(buf.bytes),
                       entry |-> [entry EXCEPT !.filesystem[class_file_name] =
                                      ZipFile("Uncompressed", buf.bytes)],
                       read |-> {}]

read_if_exists(entry, candidate) ==
    IF exists(candidate)
    THEN [res |-> IF read(candidate).ok THEN SomeBytes(read(candidate).bytes)
                                       ELSE ClassLoadingError(read(candidate).err),
          entry |-> entry, read |-> {candidate}]
    ELSE [res |-> NoBytes, entry |-> entry, read |-> {}]

\* FileSystemClassPathEntry::resolve
FileSystemClassPathEntry_resolve(entry, class_name) ==
    read_if_exists(entry,
        set_extension(PathBuf_push(entry.base_directory, class_name), <<"class">>))

\* ClassPathEntry::resolve, of the entry's implementation
entry_resolve(entry, class_name) ==
    IF entry.kind = "jar"
    THEN JarFileClassPathEntry_resolve(entry, class_name)
    ELSE FileSystemClassPathEntry_resolve(entry, class_name)


\* str::split: the parts of a string between the separators
RECURSIVE split(_, _)
split(string, separator) ==
    IF \E i \in DOMAIN string : string[i] = separator
    THEN LET first == CHOOSE i \in DOMAIN string :
                          /\ string[i] = separator
                          /\ \A j \in 1..(i - 1) : string[j] # separator
         IN  <<SubSeq(string, 1, first - 1)>>
                 \o split(SubSeq(string, first + 1, Len(string)), separator)
    ELSE <<string>>

InvalidEntry(entry) == [ok |-> FALSE, err |-> "InvalidEntry", entry |-> entry]

\* ClassPath::try_parse_entry: as an archive, or else as a directory
try_parse_entry(path) ==
    IF JarFileClassPathEntry_new(path).ok
    THEN JarFileClassPathEntry_new(path)
    ELSE IF FileSystemClassPathEntry_new(path).ok
    THEN FileSystemClassPathEntry_new(path)
    ELSE InvalidEntry(path)

\* The loop of ClassPath::push: the parsed entries, up to the first root that
\* is no entry
RECURSIVE parse_entries(_, _)
parse_entries(paths, entries_to_add) ==
    IF paths = <<>>
    THEN [ok |-> TRUE, entries |-> entries_to_add]
    ELSE IF ~try_parse_entry(Head(paths)).ok
    THEN try_parse_entry(Head(paths))
    ELSE parse_entries(Tail(paths),
                       Append(entries_to_add, try_parse_entry(Head(paths)).entry))

append_InFront(entries, added) ==
    IF added.ok THEN added.entries \o entries ELSE entries

\* Vec::append, of the entries parsed when every root is one
append(entries, added) ==
    IF added.ok THEN entries \o added.entries ELSE entries

\* The roots that the loop of ClassPath::push gets to: all of them, or those
\* up to the first that is no entry
parsed(paths) ==
    IF \A i \in DOMAIN paths : try_parse_entry(paths[i]).ok
    THEN DOMAIN paths
    ELSE 1..(CHOOSE i \in DOMAIN paths :
                /\ ~try_parse_entry(paths[i]).ok
                /\ \A j \in 1..(i - 1) : try_parse_entry(paths[j]).ok)

\* A push that added each entry to the class path as soon as it was parsed
ClassPath_push_Incremental(entries, string) ==
    [entries |->
        entries \o
        SubSeq([i \in DOMAIN split(string, ":") |->
                   try_parse_entry(split(string, ":")[i]).entry],
               1,
               Cardinality({ i \in parsed(split(string, ":")) :
                               try_parse_entry(split(string, ":")[i]).ok })),
     res |-> parse_entries(split(string, ":"), <<>>),
     archives |-> [i \in parsed(split(string, ":")) |->
                      [path |-> split(string, ":")[i],
                       res |-> JarFileClassPathEntry_new(split(string, ":")[i])]]]

\* ClassPath::push: the entries afterwards, the result, and what opening each
\* root as an archive has given
ClassPath_push(entries, string) ==
    [entries |-> append(entries, parse_entries(split(string, ":"), <<>>)),
     res |-> parse_entries(split(string, ":"), <<>>),
     archives |-> [i \in parsed(split(string, ":")) |->
                      [path |-> split(string, ":")[i],
                       res |-> JarFileClassPathEntry_new(split(string, ":")[i])]]]

\* The loop of ClassPath::resolve from the entry at `index` on: the result,
\* the entries afterwards, and what each entry consulted has answered.
RECURSIVE resolve_from(_, _, _, _)
resolve_from(entries, class_name, index, consulted) ==
    IF index > Len(entries)
    THEN [res |-> NoBytes, entries |-> entries, consulted |-> consulted]
    ELSE LET entry_result == entry_resolve(entries[index], class_name)
             after == [entries EXCEPT ![index] = entry_result.entry]
             seen  == Append(consulted, [index |-> index,
                                         res |-> entry_result.res,
                                         read |-> entry_result.read])
         IN  IF entry_result.res.kind = "none"
             THEN resolve_from(after, class_name, index + 1, seen)
             ELSE [res |-> entry_result.res, entries |-> after,
                   consulted |-> seen]

ClassPath_resolve_FromSecond(entries, class_name) ==
    resolve_from(entries, class_name, 2, <<>>)

\* ClassPath::resolve
ClassPath_resolve(entries, class_name) ==
    resolve_from(entries, class_name, 1, <<>>)

\* The roots of the model: the archives j and k, the archive u with an
\* unsupported member, the text file t, the directories d and e, x that does
\* not exist, and the empty string.
Roots == { <<"j">>, <<"k">>, <<"u">>, <<"t">>, <<"d">>, <<"e">>, <<"x">>, <<>> }

\* A class path string names one root or two.
ClassPathStrings ==
    Roots \cup { first \o <<":">> \o second : first \in Roots, second \in Roots }

\* The class names looked up: a, b and c, z that is nowhere, a/b in a package,
\* a.b with a '.' in it, and /a that begins with the separator.
ClassFileNames ==
    { <<"a">>, <<"b">>, <<"c">>, <<"z">>, <<"a", "/", "b">>, <<"a", ".", "b">>,
      <<"/", "a">> }

Push ==
    \E string \in ClassPathStrings :
        /\ Len(class_path) + Len(split(string, ":")) <= MaxEntries
        /\ \E pushed \in {ClassPath_push(class_path, string)} :
              /\ class_path' = pushed.entries
              /\ ev' = [op |-> "push", string |-> string, entries |-> class_path,
                        res |-> pushed.res, archives |-> pushed.archives]
        /\ UNCHANGED <<frames, pending, heap, classes>>

Resolve ==
    \E class_name \in ClassFileNames :
        /\ \E resolved \in {ClassPath_resolve(class_path, class_name)} :
              /\ class_path' = resolved.entries
              /\ ev' = [op |-> "resolve", class_name |-> class_name,
                        entries |-> class_path, res |-> resolved.res,
                        consulted |-> resolved.consulted]
        /\ UNCHANGED <<frames, pending, heap, classes>>

InitClassPath ==
    /\ frames = <<>>
    /\ pending = None
    /\ heap = <<>>
    /\ classes = <<>>
    /\ class_path = <<>>
    /\ ev = NoEvent

NextClassPath ==
    \/ Push
    \/ Resolve

SpecClassPath == InitClassPath /\ [][NextClassPath]_vars


\* What each entry of the class path answers when it is asked alone
Answers(entries, class_name) ==
    [i \in DOMAIN entries |-> entry_resolve(entries[i], class_name).res]

\* The entries that have the class or fail to look it up
Answering(entries, class_name) ==
    { i \in DOMAIN entries : Answers(entries, class_name)[i].kind # "none" }

\* C22: resolve asks the entries in the order they were added, up to the first
\* entry that has the class or fails: it returns the bytes or the error of
\* that entry and asks no later entry, and it returns None only when every
\* entry has answered None.
C22_ResolveStopsAtFirstMatchOrError ==
    ev.op = "resolve" =>
        /\ \A n \in DOMAIN ev.consulted : ev.consulted[n].index = n
        /\ IF Answering(ev.entries, ev.class_name) = {}
           THEN /\ ev.res = NoBytes
                /\ Len(ev.consulted) = Len(ev.entries)
           ELSE \E first \in Answering(ev.entries, ev.class_name) :
                    /\ \A i \in Answering(ev.entries, ev.class_name) : first <= i
                    /\ ev.res = Answers(ev.entries, ev.class_name)[first]
                    /\ Len(ev.consulted) = first
        /\ \A n \in DOMAIN ev.consulted :
              ev.consulted[n].res = Answers(ev.entries, ev.class_name)[n]

\* The second of three entries has the class, the first has not.
C22_Witness ==
    /\ ev.op = "resolve"
    /\ Len(ev.entries) = 3
    /\ Len(ev.consulted) = 2
    /\ ev.res.kind = "some"
    /\ ev.res.bytes # <<>>


\* The strings of a sequence, with the separator between them
RECURSIVE Joined(_, _)
Joined(strings, separator) ==
    IF Len(strings) = 1
    THEN strings[1]
    ELSE strings[1] \o <<separator>> \o Joined(Tail(strings), separator)

\* The roots a class path string names: the strings without ':' that make up
\* the string when ':' is put between them
RootsOf(string) ==
    CHOOSE paths \in UNION { [1..n -> Roots] : n \in 1..2 } :
        Joined(paths, ":") = string

IsEntry(path) ==
    JarFileClassPathEntry_new(path).ok \/ FileSystemClassPathEntry_new(path).ok

\* The entry a root becomes: an archive entry if it is opened as an archive,
\* a directory entry otherwise
EntryOf(path) ==
    IF JarFileClassPathEntry_new(path).ok
    THEN JarFileClassPathEntry_new(path).entry
    ELSE FileSystemClassPathEntry_new(path).entry

\* C23: push splits the string on ':' and, when every root is an archive or a
\* directory, appends one entry per root after the entries already there, in
\* the order written: an archive entry for a root that opens as an archive, a
\* directory entry for any other; it fails with InvalidEntry only for a root
\* that is neither.
C23_PushAppendsOneEntryPerRoot ==
    ev.op = "push" =>
        IF \A i \in DOMAIN RootsOf(ev.string) : IsEntry(RootsOf(ev.string)[i])
        THEN /\ ev.res.ok
             /\ class_path = ev.entries \o
                    [i \in DOMAIN RootsOf(ev.string) |-> EntryOf(RootsOf(ev.string)[i])]
        ELSE /\ ~ev.res.ok
             /\ ev.res.err = "InvalidEntry"
             /\ \E i \in DOMAIN RootsOf(ev.string) :
                   /\ ev.res.entry = RootsOf(ev.string)[i]
                   /\ ~IsEntry(RootsOf(ev.string)[i])

\* An archive and a directory are pushed in one string after another entry.
C23_Witness ==
    /\ ev.op = "push"
    /\ ev.res.ok
    /\ Len(ev.entries) = 1
    /\ Len(class_path) = 3
    /\ class_path[2].kind = "dir"
    /\ class_path[3].kind = "jar"
    /\ class_path[1] # class_path[3]


\* The entry that answered the n-th question of the resolve just done, as it
\* was before and as it is now
Asked(n)      == ev.entries[ev.consulted[n].index]
AskedAfter(n) == class_path[ev.consulted[n].index]

\* The archive member a class name stands for
MemberName(class_name) == class_name \o <<".", "class">>

LocalFilesOf(entry, member_name) ==
    { i \in DOMAIN Fs(entry.file_name).zip :
          Fs(entry.file_name).zip[i].file_name = member_name }

\* The complete content of a local file: its data, inflated if deflated
Content(file) ==
    IF file.compression_method = 8
    THEN decompress_to_vec(file.data).bytes
    ELSE file.data

\* C25: an archive entry answers a class name whose member path is in the
\* archive with the complete content of that member, inflated if the member
\* is deflated, which begins with the magic of a class file; it answers None
\* for a name whose member path is not in the archive.
C25_ArchiveEntryReturnsTheWholeMember ==
    ev.op = "resolve" =>
        \A n \in DOMAIN ev.consulted :
            Asked(n).kind = "jar" =>
                IF LocalFilesOf(Asked(n), MemberName(ev.class_name)) = {}
                THEN ev.consulted[n].res = NoBytes
                ELSE \E i \in LocalFilesOf(Asked(n), MemberName(ev.class_name)) :
                        /\ ev.consulted[n].res
                              = SomeBytes(Content(Fs(Asked(n).file_name).zip[i]))
                        /\ SubSeq(ev.consulted[n].res.bytes, 1, 4) = Magic


\* A file that the archive parser reads all local files of
ValidArchive(path) ==
    /\ exists(path) /\ ~is_dir(path)
    /\ \A i \in DOMAIN Fs(path).zip :
          Fs(path).zip[i].intact /\ Fs(path).zip[i].utf8

ClassFileOf(base_directory, class_name) ==
    base_directory \o <<"/">> \o class_name \o <<".", "class">>

\* C27: a directory entry answers a class name n with the bytes of the file
\* root/n.class when that file exists and with None when nothing is at that
\* path, and it reads no other file, also for a name that has a '.' in it or
\* that begins with '/'.
C27_DirectoryEntryReadsRootNameClass ==
    ev.op = "resolve" =>
        \A n \in DOMAIN ev.consulted :
            Asked(n).kind = "dir" =>
                LET file == ClassFileOf(Asked(n).base_directory, ev.class_name)
                IN  /\ (exists(file) /\ ~is_dir(file)) =>
                          ev.consulted[n].res = SomeBytes(Fs(file).bytes)
                    /\ ~exists(file) => ev.consulted[n].res = NoBytes
                    /\ ev.consulted[n].read \subseteq {file}


(***************************************************************************)
(* The instructions that are not implemented.                              *)
(***************************************************************************)
\* C28: an instruction that is not implemented (invokedynamic, jsr, jsr_w,
\* ret, tableswitch, lookupswitch, multianewarray, goto_w, wide) ends its
\* frame with the internal error NotImplemented, the operand stack and the
\* locals of the frame being what they were before it; the error is not
\* offered to the exception table, and the frames below and the heap are
\* untouched.
C28_UnsupportedInstructionIsNotImplemented ==
    [][ ev'.op = "unsupported" =>
            /\ ev'.res = "internal"
            /\ ev'.err = "NotImplemented"
            /\ ev'.at = Top.stack
            /\ ev'.locals = Top.locals
            /\ ev'.search.kind = ""
            /\ frames' = Below
            /\ pending' = Some(FailedInternal("NotImplemented"))
            /\ heap' = heap ]_vars

\* Main.outer met an instruction that is not implemented inside its catch-any
\* range [1, 4), with a value on its operand stack.
C28_Witness ==
    /\ ev.op = "unsupported"
    /\ ev.method = "outer"
    /\ ev.pc \in 1..3
    /\ ev.at # <<>>
    /\ ev.locals # <<>>
    /\ pending.some


(***************************************************************************)
(* Monitors.  The entry method is called with one object; its code pushes  *)
(* the object or null, copies and drops references, and enters and exits   *)
(* monitors in any order.                                                  *)
(***************************************************************************)
\* CallFrame::execute_monitorenter
execute_monitorenter(frame) ==
    IF frame.stack = <<>>
    THEN InternalError(frame, "ValidationException")
    ELSE IF TopValue(frame).tag = "Object"
    THEN ContinueMethodExecution(Popped(frame))
    ELSE InternalError(Popped(frame), "ValidationException")

execute_monitorexit_Unmatched(frame) ==
    IF frame.stack = <<>>
    THEN InternalError(frame, "ValidationException")
    ELSE InternalError(Popped(frame), "IllegalMonitorStateException")

\* CallFrame::execute_monitorexit
execute_monitorexit(frame) ==
    IF frame.stack = <<>>
    THEN InternalError(frame, "ValidationException")
    ELSE IF TopValue(frame).tag = "Object"
    THEN ContinueMethodExecution(Popped(frame))
    ELSE InternalError(Popped(frame), "ValidationException")

Monitorenter ==
    /\ Running /\ Parses(1)
    /\ Step("monitorenter", execute_monitorenter(Fetched(1)))
    /\ UNCHANGED heap

Monitorexit ==
    /\ Running /\ Parses(1)
    /\ Step("monitorexit", execute_monitorexit(Fetched(1)))
    /\ UNCHANGED heap

InitMonitor ==
    /\ \E h \in 1..3 :
          frames = << Vm_invoke(
                        ClassAndMethod("Main",
                            find_method("Main", "inner",
                                Descriptor(<<ObjectType(JavaLangObject)>>, Void)).v),
                        None, <<ObjectValue(h)>>) >>
    /\ pending = None
    /\ heap = InitialHeap
    /\ Loaded
    /\ ev = NoEvent

NextMonitor ==
    \/ ParseError
    \/ Aconst_null
    \/ Aload
    \/ Dup
    \/ Pop
    \/ Monitorenter
    \/ Monitorexit
    \/ Return

SpecMonitor == InitMonitor /\ [][NextMonitor]_vars

\* C29: monitorenter and monitorexit with an object reference on top of the
\* operand stack pop that reference and the frame goes on at the next
\* instruction: the rest of the stack, the locals, the frames below and the
\* heap are unchanged, whatever monitor instructions went before.
C29_MonitorInstructionsOnlyPop ==
    [][ ( /\ ev'.op \in {"monitorenter", "monitorexit"}
          /\ Top.stack # <<>>
          /\ TopValue(Top).tag = "Object" ) =>
            /\ ev'.res = "continue"
            /\ frames' = Append(Below,
                   [Top EXCEPT !.stack = SubSeq(Top.stack, 1, Len(Top.stack) - 1),
                               !.executed_instruction_pc = Top.pc,
                               !.pc = Top.pc + 1])
            /\ pending' = pending
            /\ heap' = heap ]_vars

\* The second instruction of the method is a monitorexit of the object the
\* first one has pushed: no monitorenter went before it.
C29_Witness ==
    /\ ev.op = "monitorexit"
    /\ ev.res = "continue"
    /\ ev.pc = 1
    /\ ev.depth = 1
    /\ ev.pre # <<>>


(***************************************************************************)
(* Static fields.  Main.st and S.st call each other and read and write the *)
(* static field s of Main; S has the static field t.                       *)
(***************************************************************************)
\* CallFrame::execute_getstatic
execute_getstatic(frame, field_reference, objects) ==
    LET object_class == get_or_resolve_class(field_reference.class_name) IN
    IF ~object_class.ok
    THEN InternalError(frame, object_class.err)
    ELSE
    LET field == find_field(object_class.class, field_reference.field_name) IN
    IF ~field.some
    THEN FromVmError(frame, "FieldNotFoundException")
    ELSE
    LET object == get_static_instance(frame.class_and_method.class) IN
    IF object.some /\ objects[object.v].kind = "Object"
    THEN IF ~validate_type(field.v.type_descriptor,
                           objects[object.v].fields[field.v.index], objects)
         THEN FromVmError(frame, "ValidationException")
         ELSE push(frame, objects[object.v].fields[field.v.index])
    ELSE InternalError(frame, "ValidationException")

Getstatic ==
    /\ Running /\ Parses(3)
    /\ \E field_name \in {"s", "t"} :
          StepOn("getstatic", Operand("Main", field_name, "static"),
                 execute_getstatic(Fetched(3), FieldReference("Main", field_name),
                                   heap))
    /\ UNCHANGED heap

StaticRefs ==
    { MethodReference(class_name, "st", Descriptor(<<>>, Void))
        : class_name \in {"Main", "S"} }

InitStatic ==
    /\ frames = << Vm_invoke(ClassAndMethod("Main", methods("Main", "st").v),
                             None, <<>>) >>
    /\ pending = None
    /\ heap = GcHeap
    /\ Loaded
    /\ ev = NoEvent

NextStatic ==
    \/ ParseError
    \/ Aconst_null
    \/ New
    \/ Pop
    \/ Getstatic
    \/ Putstatic
    \/ Invokestatic(StaticRefs, CallDepth)
    \/ InvokeReturn
    \/ Return

SpecStatic == InitStatic /\ [][NextStatic]_vars

\* The slot of the static field that the instruction just executed names:
\* the static instance of the class of the field reference, at the index of
\* the field
SlotObject == get_static_instance(ev'.operand.class_name).v
SlotIndex  == find_field(ev'.operand.class_name, ev'.operand.name).v.index

\* C30: putstatic C.f stores the value it pops in the slot of f in the static
\* instance of C and nowhere else, and getstatic C.f pushes the value of that
\* slot, from a method of whatever class; so the value put is the value got
\* later, and the fields of the static instance of another class are left
\* alone.
C30_StaticAccessUsesTheClassOfTheField ==
    [][ /\ (ev'.op = "putstatic" /\ ev'.res = "continue") =>
              heap' = [heap EXCEPT ![SlotObject].fields[SlotIndex] = TopValue(Top)]
        /\ (ev'.op = "getstatic" /\ ev'.res = "continue") =>
              TopValue(frames'[Len(frames')]) = heap[SlotObject].fields[SlotIndex]
      ]_vars


(***************************************************************************)
(* Branches: goto, ifnull and ifnonnull carry the address to jump to; the  *)
(* loop of CallFrame::execute has moved pc past the instruction before the *)
(* instruction runs, so a branch that is taken overwrites that pc.         *)
(* Main.guarded(Object) and Main.inner(Object) branch, throw, allocate and *)
(* call Main.inner and Main.st, which takes nothing.                       *)
(***************************************************************************)
\* CallFrame::goto
goto(frame, jump_address) == [frame EXCEPT !.pc = jump_address]

\* CallFrame::execute_if_null: pop a reference, jump if it is null (ifnull) or
\* if it is an object (ifnonnull)
execute_if_null(frame, jump_address, jump_on_null) ==
    IF frame.stack = <<>>
    THEN FromVmError(frame, "ValidationException")
    ELSE LET value == TopValue(frame) IN
         CASE value.tag = "Object" ->
                 IF ~jump_on_null
                 THEN ContinueMethodExecution(goto(Popped(frame), jump_address))
                 ELSE ContinueMethodExecution(Popped(frame))
           [] value.tag = "Null" ->
                 IF jump_on_null
                 THEN ContinueMethodExecution(goto(Popped(frame), jump_address))
                 ELSE ContinueMethodExecution(Popped(frame))
           [] OTHER -> InternalError(Popped(frame), "ValidationException")

\* The address a branch instruction carries, for the record of a step
Jump(jump_address) == [Operand("", "", "jump") EXCEPT !.immediate = jump_address]

\* The addresses the branches of the code name: every pc of the code
JumpAddresses == 0..(CodeLen - 1)

Goto ==
    /\ Running /\ Parses(3)
    /\ \E jump_address \in JumpAddresses :
          StepOn("goto", Jump(jump_address),
                 ContinueMethodExecution(goto(Fetched(3), jump_address)))
    /\ UNCHANGED heap

\* ifnull and ifnonnull
Ifnull ==
    /\ Running /\ Parses(3)
    /\ \E jump_on_null \in BOOLEAN, jump_address \in JumpAddresses :
          StepOn(IF jump_on_null THEN "ifnull" ELSE "ifnonnull", Jump(jump_address),
                 execute_if_null(Fetched(3), jump_address, jump_on_null))
    /\ UNCHANGED heap

BranchRefs ==
    { MethodReference("Main", "st", Descriptor(<<>>, Void)),
      MethodReference("Main", "inner", Descriptor(<<ObjectType(JavaLangObject)>>, Void)) }

InitBranch ==
    /\ \E name \in {"guarded", "inner"} :
          frames = << Vm_invoke(
                        ClassAndMethod("Main",
                            find_method("Main", name,
                                Descriptor(<<ObjectType(JavaLangObject)>>, Void)).v),
                        None, <<ObjectValue(3)>>) >>
    /\ pending = None
    /\ heap = GcHeap
    /\ Loaded
    /\ ev = NoEvent

NextBranch ==
    \/ ParseError
    \/ Aconst_null
    \/ Aload
    \/ New
    \/ Athrow
    \/ Goto
    \/ Ifnull
    \/ Return
    \/ Invokestatic(BranchRefs, CallDepth)
    \/ InvokeReturn

SpecBranch == InitBranch /\ [][NextBranch]_vars


(***************************************************************************)
(* The life of a frame.                                                    *)
(***************************************************************************)
\* The length in bytes of the instructions of this code
InstructionLen(op) ==
    IF op \in {"goto", "ifnull", "ifnonnull", "new", "invokestatic"} THEN 3 ELSE 1

\* The frame on top of the call stack ends and hands `result` to its caller.
EndsWith(result) ==
    /\ frames' = Below
    /\ pending' = Some(result)

\* The frame on top of the call stack stays there, running, at `pc`.
StaysAt(pc) ==
    /\ Len(frames') = Len(frames)
    /\ SubSeq(frames', 1, Len(frames') - 1) = Below
    /\ frames'[Len(frames')].pc = pc
    /\ ~pending'.some

\* The step is a branch instruction that jumps.
Taken ==
    \/ ev'.op = "goto"
    \/ ev'.op = "ifnull" /\ TopValue(Top).tag = "Null"
    \/ ev'.op = "ifnonnull" /\ TopValue(Top).tag = "Object"

\* C31: a frame executes instructions only while it is running.  It ends, its
\* result going to the caller, exactly when an instruction returns (with the
\* return value), fails with an internal error, or throws an exception that
\* no entry of the frame's exception table catches.  An instruction that
\* completes keeps the frame running at the pc after the instruction, or at
\* the jump address of a goto or of a conditional branch that is taken; an
\* exception that an entry of the frame's table catches keeps the frame
\* running at handler_pc; a frame that has ended executes nothing more.
C31_FrameRunsUntilItEnds ==
    [][ /\ frames # <<>>
        /\ ev'.depth = Len(frames)
        /\ (ev'.op = "invoke_return") <=> pending.some
        /\ CASE ev'.res = "return" ->
                   EndsWith(Returned(NoValue))
             [] ev'.res = "internal" ->
                   EndsWith(FailedInternal(ev'.err))
             [] ev'.res = "exception" /\ ev'.search.kind = "none" ->
                   EndsWith(FailedException(ev'.obj))
             [] ev'.res = "exception" /\ ev'.search.kind = "failed" ->
                   EndsWith(FailedInternal(ev'.search.err))
             [] ev'.res = "exception" /\ ev'.search.kind = "handler" ->
                   StaysAt(ev'.search.pc)
             [] ev'.res = "continue" ->
                   StaysAt(CASE ev'.op = "invoke_return" -> Top.pc
                             [] Taken -> ev'.operand.immediate
                             [] OTHER -> Top.pc + InstructionLen(ev'.op))
             [] ev'.res = "call" ->
                   /\ Len(frames') = Len(frames) + 1
                   /\ SubSeq(frames', 1, Len(frames) - 1) = Below
                   /\ frames'[Len(frames)].pc = Top.pc + InstructionLen(ev'.op)
                   /\ frames'[Len(frames')].pc = 0
                   /\ ~pending'.some
      ]_vars


(***************************************************************************)
(* Comparisons: Main.ff(float, float), Main.dd(double, double) and         *)
(* Main.math load their parameters, push long constants and compare.       *)
(***************************************************************************)
InitCompare ==
    /\ \/ \E a \in FloatCodes, b \in FloatCodes :
          \E entry \in { [name |-> "ff", params |-> <<FloatValue(a), FloatValue(b)>>],
                         [name |-> "dd", params |-> <<DoubleValue(a), DoubleValue(b)>>] } :
             frames = << Vm_invoke(
                           [class |-> "Main", name |-> entry.name,
                            type_descriptor |->
                                methods("Main", entry.name).v.type_descriptor],
                           None,
                           fix_long_and_double_params(entry.params)) >>
       \/ frames = << Vm_invoke([class |-> "Main", name |-> "math",
                                 type_descriptor |-> Descriptor(<<>>, Void)],
                                None, <<>>) >>
    /\ pending = None
    /\ heap = InitialHeap
    /\ Loaded
    /\ ev = NoEvent

NextCompare ==
    \/ ParseError
    \/ Lconst
    \/ Ldc2_w
    \/ Fload
    \/ Dload
    \/ Lcmp
    \/ Fcmpg
    \/ Fcmpl
    \/ Dcmpg
    \/ Dcmpl
    \/ Return

SpecCompare == InitCompare /\ [][NextCompare]_vars

\* The sign of the comparison of value1 with value2
Signum(greater, less) ==
    CASE greater -> 1
      [] less    -> -1
      [] OTHER   -> 0

\* C32: lcmp, and fcmpl, fcmpg, dcmpl and dcmpg on operands neither of which
\* is NaN, push 1 when value1 > value2, 0 when they are equal and -1 when
\* value1 < value2, value1 being the deeper operand; so on operands that are
\* not NaN fcmpg pushes what fcmpl pushes and dcmpg what dcmpl pushes.
C32_ComparisonsPushTheSign ==
    /\ Operated({"lcmp"}, "Long", "Long") =>
          /\ ev.res = "continue"
          /\ ev.at = Replaced(IntValue(Signum(Val1 > Val2, Val1 < Val2)))
    /\ (/\ \/ Operated({"fcmpl", "fcmpg"}, "Float", "Float")
           \/ Operated({"dcmpl", "dcmpg"}, "Double", "Double")
        /\ ~is_nan(Val1) /\ ~is_nan(Val2))
          => /\ ev.res = "continue"
             /\ ev.at = Replaced(IntValue(Signum(magnitude(Val1) > magnitude(Val2),
                                                 magnitude(Val1) < magnitude(Val2))))


(***************************************************************************)
(* The logical shift of an int (under SpecMath).                           *)
(***************************************************************************)
\* The low bits of the count that iushr shifts by (s & 0x1f)
ShiftDistance == BitAnd(Val2, IntBits - 1)

\* The bit pattern of the int a, read as an unsigned number
Unsigned(a) == a % (2 ^ IntBits)

\* The unsigned number u, read as the bit pattern of a signed int
Signed(u) == IF u >= 2 ^ (IntBits - 1) THEN u - 2 ^ IntBits ELSE u

\* C33: iushr pushes the logical right shift of the bit pattern of its
\* operand: for every int a, negative, zero or positive, and every count s the
\* result is ((a mod 2^width) div 2^(s & (width - 1))) read as a signed int;
\* it is not negative when the masked count is above zero and it is a when
\* the masked count is zero.
C33_IushrShiftsTheBitPattern ==
    Operated({"iushr"}, "Int", "Int") =>
        LET shifted == Signed(Unsigned(Val1) \div (2 ^ ShiftDistance)) IN
        /\ ev.res = "continue"
        /\ ev.at = Replaced(IntValue(shifted))
        /\ ShiftDistance > 0 => shifted >= 0
        /\ ShiftDistance = 0 => shifted = Val1

\* The least int was shifted by a negative count whose low bits are all ones,
\* and the result is 1.
C33_Witness ==
    /\ Operated({"iushr"}, "Int", "Int")
    /\ Val1 = MinValue(IntBits)
    /\ Val2 = -1
    /\ ev.res = "continue"
    /\ ev.at = Replaced(IntValue(1))


(***************************************************************************)
(* iinc: Main.storeIJ(int, long) increments its locals.  The instruction   *)
(* is the opcode, the index byte and the constant byte; the parser hands   *)
(* the constant over as a signed byte.  A byte is scaled down with the     *)
(* int: it has half the bits of an int.                                    *)
(***************************************************************************)
ByteBits == IntBits \div 2

Bytes == 0..(2 ^ ByteBits - 1)

\* The constant byte of iinc as the i8 the parser makes of it
as_i8(byte) == IF byte >= 2 ^ (ByteBits - 1) THEN byte - 2 ^ ByteBits ELSE byte

\* CallFrame::get_local_int_as_int
get_local_int_as_int(frame, index, objects) ==
    IF index + 1 > Len(frame.locals) THEN Err("ValidationException")
    ELSE LET variable == frame.locals[index + 1] IN
         IF ~validate_type(Base("Int"), variable, objects)
         THEN Err("ValidationException")
         ELSE IF variable.tag = "Int" THEN Ok(variable.v)
              ELSE Err("ValidationException")

\* Instruction::Iinc: `local + constant as i32` is the `+` of Rust on i32
execute_iinc(frame, index, constant, objects, overflow_checks) ==
    LET local == get_local_int_as_int(frame, index, objects) IN
    IF ~local.ok THEN FromVmError(frame, local.err)
    ELSE LET sum == unchecked(local.v + constant, IntBits, overflow_checks) IN
         IF ~sum.ok THEN Panicked(frame)
         ELSE ContinueMethodExecution(
                  [frame EXCEPT !.locals[index + 1] = IntValue(sum.v)])

\* The two operand bytes of iinc, as one number
IincOperand(index, byte) ==
    [Operand("", "iinc", "") EXCEPT !.immediate = index * (2 ^ ByteBits) + byte]

Iinc ==
    /\ Running /\ Parses(3)
    /\ \E index \in LocalIndexes, byte \in Bytes, overflow_checks \in BOOLEAN :
          StepOn("iinc", IincOperand(index, byte),
                 execute_iinc(Fetched(3), index, as_i8(byte), heap, overflow_checks))
    /\ UNCHANGED heap

\* The int parameter of Main.storeIJ is any of these.
IincValues == {MinValue(IntBits), -1, 0, MaxValue(IntBits)}

InitIinc ==
    /\ \E value \in IincValues :
          frames = << Vm_invoke(
                        [class |-> "Main", name |-> "storeIJ",
                         type_descriptor |->
                             methods("Main", "storeIJ").v.type_descriptor],
                        None,
                        fix_long_and_double_params(<<IntValue(value), LongValue(1)>>)) >>
    /\ pending = None
    /\ heap = InitialHeap
    /\ Loaded
    /\ ev = NoEvent

NextIinc ==
    \/ ParseError
    \/ Iconst
    \/ Iload
    \/ Istore
    \/ Iinc
    \/ Return

SpecIinc == InitIinc /\ [][NextIinc]_vars

\* The index byte and the constant byte of the iinc of the step
IincIndex == ev'.operand.immediate \div (2 ^ ByteBits)
IincByte  == ev'.operand.immediate % (2 ^ ByteBits)

\* C34: iinc index, c adds to the Int in locals[index] the constant c read as
\* a signed byte (the byte of all ones decrements by one), wrapping in two's
\* complement at the bounds of an int, and leaves the operand stack and every
\* other local as they were; when locals[index] holds no Int it fails with
\* ValidationException and changes nothing.
C34_IincAddsTheSignedByte ==
    [][ ev'.op = "iinc" =>
          LET held == IF IincIndex + 1 > Len(Top.locals) THEN Uninitialized
                      ELSE Top.locals[IincIndex + 1]
              c    == IF IincByte >= 2 ^ (ByteBits - 1)
                      THEN IincByte - 2 ^ ByteBits ELSE IincByte
          IN  /\ ev'.at = Top.stack
              /\ IF held.tag = "Int"
                 THEN /\ ev'.res = "continue"
                      /\ ev'.locals =
                            [Top.locals EXCEPT ![IincIndex + 1] =
                                IntValue(wrap(held.v + c, IntBits))]
                 ELSE /\ ev'.res = "internal"
                      /\ ev'.err = "ValidationException"
                      /\ ev'.locals = Top.locals
      ]_vars


(***************************************************************************)
(* A push that fails (under SpecClassPath).                                *)
(***************************************************************************)
\* C35: when push fails because a root of the string is neither an archive
\* nor a directory, the class path is what it was before the call: no root of
\* the string is added, the valid roots written before the invalid one
\* included, and every class name resolves as it did before the call.
C35_FailedPushAddsNothing ==
    (ev.op = "push" /\ ~ev.res.ok) =>
        /\ class_path = ev.entries
        /\ \A class_name \in ClassFileNames :
              ClassPath_resolve(class_path, class_name).res =
                  ClassPath_resolve(ev.entries, class_name).res

\* A push of a directory followed by a root that does not exist failed, on a
\* class path whose one entry was an archive and still is its one entry.
C35_Witness ==
    /\ ev.op = "push"
    /\ ~ev.res.ok
    /\ ev.string = <<"d", ":", "x">>
    /\ ev.res.entry = <<"x">>
    /\ Len(ev.entries) = 1
    /\ Len(class_path) = 1
    /\ class_path[1].kind = "jar"


(***************************************************************************)
(* Type tests: Main.outer(Object) is called with an instance, an int array *)
(* or an array of B, and its code tests what it loads, and null, against   *)
(* class names and array types.                                            *)
(***************************************************************************)
\* CallFrame::execute_instanceof
execute_instanceof(frame, class_reference, objects) ==
    IF frame.stack = <<>> THEN FromVmError(frame, "ValidationException")
    ELSE
    LET value == TopValue(frame)
        is_instance_of == is_instanceof(class_reference, value, objects)
    IN
    IF ~is_instance_of.ok
    THEN InternalError(Popped(frame), is_instance_of.err)
    ELSE push(Popped(frame), IntValue(IF is_instance_of.v THEN 1 ELSE 0))

\* The class references of the constant pool of Main: class names, one of a
\* class that is on no class path entry, and the array types [LA; and [LB;
ClassReferences ==
    { ClassReference(FALSE, name) : name \in {JavaLangObject, "A", "B", "E", "Missing"} }
    \cup { ClassReference(TRUE, name) : name \in {"A", "B"} }

TypeTest(op, class_reference, result) ==
    StepOn(op,
           Operand(class_reference.name, "",
                   IF class_reference.is_array THEN "array" ELSE "class"),
           result)

Instanceof ==
    /\ Running /\ Parses(3)
    /\ \E class_reference \in ClassReferences :
          TypeTest("instanceof", class_reference,
                   execute_instanceof(Fetched(3), class_reference, heap))
    /\ UNCHANGED heap

CheckcastOf ==
    /\ Running /\ Parses(3)
    /\ \E class_reference \in ClassReferences :
          TypeTest("checkcast", class_reference,
                   execute_checkcast(Fetched(3), class_reference, heap))
    /\ UNCHANGED heap

InitInstanceof ==
    /\ \E h \in DOMAIN TypesHeap :
          frames = << Vm_invoke(
                        ClassAndMethod("Main",
                            find_method("Main", "outer",
                                Descriptor(<<ObjectType(JavaLangObject)>>, Void)).v),
                        None, <<ObjectValue(h)>>) >>
    /\ pending = None
    /\ heap = TypesHeap
    /\ Loaded
    /\ ev = NoEvent

NextInstanceof ==
    \/ ParseError
    \/ Aconst_null
    \/ Aload
    \/ Instanceof
    \/ CheckcastOf
    \/ Return

SpecInstanceof == InitInstanceof /\ [][NextInstanceof]_vars

\* The step taken last was the type test `op` of a value on top of the stack
\* against a class reference that resolves.
Tested(op) ==
    /\ ev.op = op
    /\ Len(ev.pre) >= 1
    /\ ev.operand.class_name \in ClassNames

\* The value tested and, when it is an object or an array, what the heap holds
TestedValue  == ev.pre[Len(ev.pre)]
TestedObject == heap[TestedValue.v]

\* The stack after the test: the value replaced by `value`
Answered(value) == SubSeq(ev.pre, 1, Len(ev.pre) - 1) \o <<value>>

\* C37: instanceof against a class name T that is not an array type and not
\* java/lang/Object pushes 0 for every array, an array of T or of a subclass
\* of T included; against the array type [LT; it pushes 1 exactly for the
\* arrays whose element class is T or a subclass of T, and 0 for every object
\* that is no array.
C37_InstanceofTellsArraysFromClasses ==
    (Tested("instanceof") /\ TestedValue.tag = "Object") =>
        /\ (/\ ev.operand.kind = "class"
            /\ ev.operand.class_name # JavaLangObject
            /\ TestedObject.kind = "Array")
              => (ev.res = "continue" /\ ev.at = Answered(IntValue(0)))
        /\ ev.operand.kind = "array" =>
              /\ ev.res = "continue"
              /\ ev.at = Answered(IntValue(
                    IF /\ TestedObject.kind = "Array"
                       /\ TestedObject.elements_type.k = "Object"
                       /\ is_subclass_of(TestedObject.elements_type.t,
                                         ev.operand.class_name)
                    THEN 1 ELSE 0))

\* C38: checkcast of Null succeeds whatever the target class: the Null stays
\* on top of the stack, the rest of the stack is as it was and no error or
\* exception is raised; instanceof of Null pushes 0.
C38_NullPassesCheckcast ==
    /\ (Tested("checkcast") /\ TestedValue.tag = "Null") =>
          (ev.res = "continue" /\ ev.at = ev.pre)
    /\ (Tested("instanceof") /\ TestedValue.tag = "Null") =>
          (ev.res = "continue" /\ ev.at = Answered(IntValue(0)))


(***************************************************************************)
(* Stores past the locals.                                                 *)
(***************************************************************************)
Stores == {"istore", "lstore", "astore"}

\* The step being taken is a store whose index is not below the length of
\* the locals of the frame.
StoresPastTheLocals ==
    /\ ev'.op \in Stores
    /\ ev'.operand.name = "local"
    /\ ev'.operand.kind = ""

\* C39: a store whose index is not below the length of the locals ends as
\* the internal error ValidationException, as a load with such an index
\* does; the interpreter is not aborted and the locals are as they were.
C39_StorePastTheLocalsIsRefused ==
    [][ StoresPastTheLocals =>
            /\ ev'.res = "internal"
            /\ ev'.err = "ValidationException"
            /\ ev'.locals = Top.locals
      ]_vars


(***************************************************************************)
(* Division, remainder and negation at the ends of the range:              *)
(* Main.storeIJ(int, long) loads its parameters, pushes the Integer and    *)
(* Long entries of its constant pool, among them the least int, the least  *)
(* long and -1, and divides and negates them.                              *)
(***************************************************************************)
\* generate_execute_neg!: pop the value, push `-value`, the negation of Rust:
\* exact when it fits; for MIN a panic in a build with overflow checks and
\* MIN in a build without them.
execute_neg(frame, tag, bits, overflow_checks) ==
    LET popped == pop_typed(frame, tag) IN
    IF popped.kind # "continue" THEN popped
    ELSE LET result == unchecked(-TopValue(frame).v, bits, overflow_checks) IN
         IF result.ok
         THEN push(popped.frame, [tag |-> tag, v |-> result.v])
         ELSE Panicked(popped.frame)

Neg(op, tag, bits) ==
    /\ Running /\ Parses(1)
    /\ \E overflow_checks \in BOOLEAN :
          Step(op, execute_neg(Fetched(1), tag, bits, overflow_checks))
    /\ UNCHANGED heap

Ineg == Running /\ Neg("ineg", "Int", IntBits)
Lneg == Running /\ Neg("lneg", "Long", LongBits)

InitDivide ==
    /\ \E int \in IntegerConstants, long \in LongConstants :
          frames = << Vm_invoke(
                        [class |-> "Main", name |-> "storeIJ",
                         type_descriptor |->
                             methods("Main", "storeIJ").v.type_descriptor],
                        None,
                        fix_long_and_double_params(<<IntValue(int), LongValue(long)>>)) >>
    /\ pending = None
    /\ heap = InitialHeap
    /\ Loaded
    /\ ev = NoEvent

NextDivide ==
    \/ ParseError
    \/ Iload
    \/ Lload
    \/ Ldc
    \/ Ldc2_w
    \/ Idiv
    \/ Irem
    \/ Ldiv
    \/ Lrem
    \/ Ineg
    \/ Lneg
    \/ Return

SpecDivide == InitDivide /\ [][NextDivide]_vars

\* The step taken last was the negation `op` finding a value of its type
Negated(op, tag) ==
    /\ ev.op = op
    /\ ev.pre # <<>>
    /\ ev.pre[Len(ev.pre)].tag = tag

\* The stack after the negation: the operand replaced by `value`
Instead(value) == SubSeq(ev.pre, 1, Len(ev.pre) - 1) \o <<value>>

\* C40: idiv and ldiv of the least value by -1 push the least value, irem and
\* lrem of the least value by -1 push 0, ineg and lneg of the least value
\* push the least value; none of them ends as ArithmeticException or ends the
\* interpreter.
C40_LeastValueDividesAndNegates ==
    /\ (Operated({"idiv"}, "Int", "Int") /\ Val1 = MinValue(IntBits) /\ Val2 = -1) =>
          /\ ev.res = "continue"
          /\ ev.at = Replaced(IntValue(MinValue(IntBits)))
    /\ (Operated({"irem"}, "Int", "Int") /\ Val1 = MinValue(IntBits) /\ Val2 = -1) =>
          /\ ev.res = "continue"
          /\ ev.at = Replaced(IntValue(0))
    /\ (Operated({"ldiv"}, "Long", "Long") /\ Val1 = MinValue(LongBits) /\ Val2 = -1) =>
          /\ ev.res = "continue"
          /\ ev.at = Replaced(LongValue(MinValue(LongBits)))
    /\ (Operated({"lrem"}, "Long", "Long") /\ Val1 = MinValue(LongBits) /\ Val2 = -1) =>
          /\ ev.res = "continue"
          /\ ev.at = Replaced(LongValue(0))
    /\ (Negated("ineg", "Int") /\ ev.pre[Len(ev.pre)].v = MinValue(IntBits)) =>
          /\ ev.res = "continue"
          /\ ev.at = Instead(IntValue(MinValue(IntBits)))
    /\ (Negated("lneg", "Long") /\ ev.pre[Len(ev.pre)].v = MinValue(LongBits)) =>
          /\ ev.res = "continue"
          /\ ev.at = Instead(LongValue(MinValue(LongBits)))


(***************************************************************************)
(* Class initialisation during the handler search.  Main.late(A[]) loads   *)
(* its array, clones it, allocates and throws; its first handler catches   *)
(* Late, a class on the class path that is not installed when Main.late    *)
(* starts.  Vm::get_or_resolve_class installs a class the first time it is *)
(* named and runs its <clinit> on the call stack of the caller before it   *)
(* returns; Late.<clinit> allocates and returns.  A collection may run     *)
(* before any instruction, those of Late.<clinit> included.                *)
(***************************************************************************)
\* The classes that the entries of the class path have a class file of
OnClassPath == ClassNames \cup {"Late"}

Initializing(class_name) ==
    [kind |-> "initialize", pc |-> 0, err |-> "", class |-> class_name]

\* The loop of find_exception_handler over the catch handlers, with
\* vm.get_or_resolve_class installing the classes it meets: the answer of
\* the search, or the class whose <clinit> runs before the loop goes on
\* with that handler.
RECURSIVE search_handlers(_, _, _, _)
search_handlers(catch_handlers, exception, objects, installed) ==
    IF catch_handlers = <<>> THEN NotFound
    ELSE LET catch_handler == Head(catch_handlers) IN
         IF ~catch_handler.catch_class.some
         THEN Found(catch_handler.handler_pc)
         ELSE LET class_name == catch_handler.catch_class.v IN
              IF class_name \notin Installed(installed)
              THEN IF class_name \in OnClassPath
                   THEN Initializing(class_name)
                   ELSE SearchFailed("ClassNotFoundException")
              ELSE IF is_subclass_of(objects[exception].class, class_name)
                   THEN Found(catch_handler.handler_pc)
                   ELSE search_handlers(Tail(catch_handlers), exception,
                                        objects, installed)

\* The answer of a search as the record of a step keeps it
Answer(found) == [kind |-> found.kind, pc |-> found.pc, err |-> found.err]

\* The catch handlers from the first one that names the class on: where the
\* loop goes on when the <clinit> of the class has returned.
RECURSIVE handlers_from(_, _)
handlers_from(catch_handlers, class_name) ==
    IF catch_handlers = <<>> THEN <<>>
    ELSE IF Head(catch_handlers).catch_class = Some(class_name)
         THEN catch_handlers
         ELSE handlers_from(Tail(catch_handlers), class_name)

\* The arm Err(ExceptionThrown(exception)) of the loop of `execute` of
\* `frame`: the search has answered, or the class it met is installed and
\* its <clinit> is invoked while `execute` holds the exception.
searched(below, frame, exception, found, installed) ==
    IF found.kind = "initialize"
    THEN [frames  |-> below \o
                        << [frame EXCEPT !.thrown = Some(exception)],
                           Vm_invoke(ClassAndMethod(found.class,
                                         methods(found.class, "<clinit>").v),
                                     None, <<>>) >>,
          pending |-> None,
          search  |-> Answer(found),
          classes |-> Append(installed,
                             Class(found.class, Some(JavaLangObject), <<>>))]
    ELSE LET out == enter_handler(below,
                                  ExceptionThrown([frame EXCEPT !.thrown = None],
                                                  exception),
                                  found)
         IN  [frames |-> out.frames, pending |-> out.pending,
              search |-> out.search, classes |-> installed]


\* Instruction::Athrow and the arm of `execute` that takes its exception
AthrowResolving ==
    /\ Running /\ Parses(1)
    /\ \E result \in {execute_athrow(Fetched(1))} :
          IF result.kind # "exception"
          THEN Step("athrow", result)
          ELSE \E out \in
                  { searched(Below, result.frame, result.obj,
                        search_handlers(
                            lookup(method_of(result.frame.class_and_method)
                                       .exception_table,
                                   HandlerSearchPc(result.frame)),
                            result.obj, heap, classes),
                        classes) } :
                  /\ frames' = out.frames
                  /\ pending' = out.pending
                  /\ classes' = out.classes
                  /\ ev' = Event("athrow", NoOperand, result, out)
                  /\ UNCHANGED class_path
    /\ UNCHANGED heap

\* What `exception.0.class_id()` finds at the place of the exception: the
\* object, or, when the place has been freed, whatever the memory holds.
read_exception(exception, objects) ==
    IF objects[exception].kind = "Free"
    THEN { [objects EXCEPT ![exception] = Instance(class_name, <<>>)]
              : class_name \in OnClassPath }
    ELSE { objects }

\* The <clinit> of the catch class has ended and vm.get_or_resolve_class
\* returns into find_exception_handler: with the class, and the loop over
\* the catch handlers goes on, or with the failure of <clinit>, which ends
\* the frame.
ClinitReturns ==
    /\ frames # <<>> /\ pending.some /\ Top.thrown.some
    /\ LET exception == Top.thrown.v
           frame     == [Top EXCEPT !.thrown = None]
           catch_handlers ==
               handlers_from(
                   lookup(method_of(frame.class_and_method).exception_table,
                          HandlerSearchPc(frame)),
                   classes[Len(classes)].name)
       IN  IF pending.v.kind = "return"
           THEN \E objects \in read_exception(exception, heap) :
                \E out \in { searched(Below, frame, exception,
                                      search_handlers(catch_handlers, exception,
                                                      objects, classes),
                                      classes) } :
                   /\ frames' = out.frames
                   /\ pending' = out.pending
                   /\ classes' = out.classes
                   /\ ev' = Event("clinit_return", NoOperand,
                                  ExceptionThrown(frame, exception), out)
           ELSE /\ frames' = Below
                /\ pending' = pending
                /\ classes' = classes
                /\ ev' = Event("clinit_return", NoOperand,
                               [kind |-> pending.v.kind, frame |-> frame,
                                val |-> NoValue, err |-> pending.v.err,
                                obj |-> pending.v.obj],
                               [search |-> SearchFailed(pending.v.err)])
    /\ UNCHANGED <<heap, class_path>>

\* Vm::clone_array: a new array of the element type and the length of the
\* array, with its elements copied; anything but an array is refused.
clone_array(value, objects) ==
    IF value.tag = "Object" /\ objects[value.v].kind = "Array"
    THEN LET place == new_object("", objects).v IN
         [ok |-> TRUE, v |-> ObjectValue(place), err |-> "",
          objects |-> [objects EXCEPT ![place] = objects[value.v]]]
    ELSE [ok |-> FALSE, v |-> Null, err |-> "ValidationException",
          objects |-> objects]

\* invoke_method of `clone` on an array class: pop the array, clone it, push
\* the clone.
execute_array_clone(frame, objects) ==
    IF frame.stack = <<>>
    THEN [result |-> FromVmError(frame, "ValidationException"), objects |-> objects]
    ELSE LET array == TopValue(frame)
             clone == clone_array(array, objects)
         IN  IF clone.ok
             THEN [result |-> push(Popped(frame), clone.v),
                   objects |-> clone.objects]
             ELSE [result |-> FromVmError(Popped(frame), clone.err),
                   objects |-> objects]

\* invokevirtual [LA;.clone
ArrayClone ==
    /\ Running /\ Parses(3)
    /\ new_object("", heap).some
    /\ LET done == execute_array_clone(Fetched(3), heap) IN
       /\ StepOn("invokevirtual", Operand("[LA;", "clone", "Virtual"), done.result)
       /\ heap' = done.objects

InitLate ==
    /\ frames = << Vm_invoke(ClassAndMethod("Main", methods("Main", "late").v),
                             None, <<ObjectValue(2)>>) >>
    /\ pending = None
    /\ heap = GcHeap
    /\ Loaded
    /\ ev = NoEvent

NextLate ==
    \/ ParseError
    \/ Aload
    \/ Pop
    \/ New
    \/ ArrayClone
    \/ AthrowResolving
    \/ ClinitReturns
    \/ Return
    \/ Collect

SpecLate == InitLate /\ [][NextLate]_vars

\* C36: no collection frees an object that the instruction being executed
\* still uses: the exception that athrow has popped is allocated, the object
\* that was thrown, while the handlers are searched and the catch classes
\* are initialised, until it is pushed for the handler or handed to the
\* caller; the array that an array clone has popped is allocated when the
\* clone is pushed.
C36_NoCollectionFreesWhatIsInUse ==
    /\ \A i \in 1..Len(frames) :
          frames[i].thrown.some => Allocated(frames[i].thrown.v)
    /\ (ev.op \in {"athrow", "clinit_return"} /\ ev.res = "exception"
            /\ ev.search.kind \in {"handler", "none"}) =>
          Allocated(ev.obj)
    /\ (ev.op = "invokevirtual" /\ ev.res = "continue") =>
          /\ Allocated(ev.pre[Len(ev.pre)].v)
          /\ Allocated(ev.at[Len(ev.at)].v)
          /\ heap[ev.at[Len(ev.at)].v] = heap[ev.pre[Len(ev.pre)].v]
          /\ ev.at[Len(ev.at)] # ev.pre[Len(ev.pre)]

====
